---------------------------- MODULE Spec2Model ----------------------------
(***************************************************************************)
(* Model of the focus-session / break-prompt / pomodoro core of the        *)
(* backend (Backend/app/routes/stress.py, Backend/app/routes/breaks.py,    *)
(* Backend/app/db.py).                                                     *)
(*                                                                         *)
(* Units.  Instants are whole seconds after an arbitrary epoch T.  Scores  *)
(* are ten-thousandths (0.75 is 7500, 0.7777 is 7777); report statistics,  *)
(* which the code rounds to 3 decimals, are thousandths.                   *)
(*                                                                         *)
(* Documents keep the fields the handlers read or write.  Fields that are  *)
(* written once and never read back by any handler of the core             *)
(* (study_label, signal_source, confidence, raw_metrics, reason, payload,  *)
(* a focus session's started_at) are left out.  uuid4() identifiers are    *)
(* modelled by the position of the document in its collection, which is    *)
(* fresh because no handler ever deletes a document.                       *)
(***************************************************************************)
EXTENDS Integers, Sequences, FiniteSets, TLC

VARIABLES
    focus_sessions,     \* db.focus_sessions, in insertion order
    focus_samples,      \* db.focus_samples, in insertion order
    break_prompts,      \* db.break_prompts, in insertion order
    focus_reports,      \* db.focus_reports, in insertion order
    pomodoro_sessions,  \* db.pomodoro_sessions, in insertion order
    break_preferences,  \* db.break_preferences, in insertion order
    procs,              \* the requests in flight (interleaved specification)
    memory_db,          \* _memory_db, the in-memory fallback database
    reachable,          \* MongoDB answers the ping of get_db()
    live_stress_snapshots,  \* db.live_stress_snapshots, in insertion order
    live_analysis_cache     \* _live_analysis_cache, owner -> snapshot

vars == <<focus_sessions, focus_samples, break_prompts, focus_reports,
          pomodoro_sessions, break_preferences, procs, memory_db, reachable,
          live_stress_snapshots, live_analysis_cache>>

\* the database a handler gets from get_db(), as one value
DB == [focus_sessions    |-> focus_sessions,
       focus_samples     |-> focus_samples,
       break_prompts     |-> break_prompts,
       focus_reports     |-> focus_reports,
       pomodoro_sessions |-> pomodoro_sessions,
       break_preferences |-> break_preferences]

\* the database of a fresh store: every collection empty
EmptyDB ==
    [focus_sessions    |-> <<>>,
     focus_samples     |-> <<>>,
     break_prompts     |-> <<>>,
     focus_reports     |-> <<>>,
     pomodoro_sessions |-> <<>>,
     break_preferences |-> <<>>]

\* _live_analysis_cache.get(user_id) of an owner the cache does not hold
NoSnapshot == <<>>

---------------------------------------------------------------------------
(* Program constants *)

HIGH_STRESS_THRESHOLD == 7500

PROMPT_AFTER_MINUTES == 10

\* timedelta(minutes=PROMPT_AFTER_MINUTES), in seconds
PromptAfter == PROMPT_AFTER_MINUTES * 60

\* Python's None in a time-valued field (ended_at, resolved_at)
None == -1

\* a request body that does not carry the identifier at all
MissingId == 0

\* a score the client sent that float() rejects (TypeError / ValueError)
NotANumber == -1000

---------------------------------------------------------------------------
(* Bounds of the model and the requests clients send *)

\* Spec: one focus session, looked at with every kind of request
MaxSessions == 1

MaxSamples == 3

\* SpecPair: two focus sessions, with the requests that raise prompts
PairSessions == 2

PairSamples == 4

\* SpecAll: every handler, with the requests that raise prompts
MaxPomodoros == 1

\* SpecConc: requests in flight at once
MaxRequests == 3

Users == {"u1", "u2"}

\* capture times: a window's start and end, and one second after each
CaptureTimes == {0, 1, PromptAfter, PromptAfter + 1}

\* <<focus_score, stress_score>> of a request: just below the threshold,
\* well above it (0.9), and pairs with one score above 1, below 0 or no
\* number
LowStress == <<8000, 7400>>

HighStress == <<2000, 9000>>

ValidScores == {LowStress, HighStress}

InvalidScores ==
    {<<5000, 10001>>, <<10001, 5000>>, <<5000, -1>>, <<-1, 9000>>,
     <<NotANumber, 5000>>, <<5000, NotANumber>>}

\* allow_prompted_breaks of a start request ("none": not given)
AllowInputs == {"true", "false", "none"}

\* <<resolved_at, acknowledged>> of an acknowledgement request
AckInputs == {<<700, TRUE>>, <<800, FALSE>>}

\* ended_at of an end request
EndTimes == {900, 1000}

\* pomodoro requests: <<focus_minutes, break_minutes, cycles>>, one of 60 s
\* in all and others with one value zero or negative; started at 0
PomodoroParams ==
    {<<1, 1, 1>>, <<0, 1, 1>>, <<1, 0, 1>>, <<1, 1, 0>>, <<1, -2, 1>>}

\* the wall clock at a status read, and ended_at of a stop request
StatusTimes == {30, 60, 90}

StopTimes == {45}

\* ended_at of the stop requests in flight at once
ConcStopTimes == {45, 50}

\* owners that set a standing stress-prompt preference
\* timers of the phase computation: every small one and the default 25/5/4
PhaseParams ==
    {<<f, b, c>> : f \in 1..2, b \in 1..2, c \in 1..3} \cup {<<25, 5, 4>>}

\* start instants of the timers, and the instants at which they are read
PhaseStarts == {0, 100}

PhaseTimes == {0, 50, 100, 160, 700, 1499, 1500, 1599, 1600, 6900, 7000}

\* the phase is computed for every whole second up to this one
PhaseHorizon == 7100

\* scores of the report computation: the two of the samples above and two
\* with four decimals (0.1234, 0.7777; 0.6666, 0.3337)
ReportScores == {LowStress, HighStress, <<1234, 7777>>, <<6666, 3337>>}

ReportTimes == {0, 1, 600}

\* at most this many samples in the list the report is built from
ReportSamples == 3

\* the store calls of end_focus_session and of ingest_focus_sample (with
\* those of _maybe_queue_break_prompt), in the order the handler makes them
EndCalls == <<"find_session", "find_samples", "update_session", "upsert_report">>

IngestCalls ==
    <<"find_session", "insert_sample", "find_high_stress", "find_prompt",
      "insert_prompt">>

PrefUsers == {"u1"}

---------------------------------------------------------------------------
(* Store primitives (db.py: find_one / find with sort, update_one) *)

\* find_one(query) without sort: the first match in insertion order.
\* idx is the set of positions that match; the result is a position, or 0
\* when nothing matches.
FirstMatch(idx) ==
    IF idx = {} THEN 0 ELSE CHOOSE i \in idx : \A j \in idx : i <= j

\* find_one(query, sort=[("captured_at", 1)]): list.sort is stable, so the
\* smallest captured_at wins and, among equal ones, the first inserted.
EarliestByCapturedAt(coll, idx) ==
    IF idx = {} THEN 0
    ELSE CHOOSE i \in idx :
            \A j \in idx : \/ coll[i].captured_at < coll[j].captured_at
                           \/ /\ coll[i].captured_at = coll[j].captured_at
                              /\ i <= j

\* find_one(query, sort=[("created_at", 1)])
OldestByCreatedAt(coll, idx) ==
    IF idx = {} THEN 0
    ELSE CHOOSE i \in idx :
            \A j \in idx : \/ coll[i].created_at < coll[j].created_at
                           \/ /\ coll[i].created_at = coll[j].created_at
                              /\ i <= j

\* db.<collection>.find_one({"session_id": sid}): position or 0
FindSession(sessions, sid) ==
    FirstMatch({i \in 1..Len(sessions) : sessions[i].session_id = sid})

\* find(query, sort=[("captured_at", 1)]) as the list of positions, in the
\* order of the stable sort
RECURSIVE SortedByCapturedAt(_, _)
SortedByCapturedAt(coll, idx) ==
    IF idx = {} THEN <<>>
    ELSE LET i == EarliestByCapturedAt(coll, idx)
         IN  <<i>> \o SortedByCapturedAt(coll, idx \ {i})

---------------------------------------------------------------------------
(* Threshold-triggered prompt engine (stress.py) *)

\* HighStressQuery without the session filter
HighStressQueryAnySession(samples, sid, high_stress_start) ==
    {i \in 1..Len(samples) :
        /\ samples[i].captured_at >= high_stress_start
        /\ samples[i].stress_score >= HIGH_STRESS_THRESHOLD}

\* HighStressQuery without the lower bound on the capture time
HighStressQueryUnbounded(samples, sid, high_stress_start) ==
    {i \in 1..Len(samples) :
        /\ samples[i].session_id = sid
        /\ samples[i].stress_score >= HIGH_STRESS_THRESHOLD}

\* the query of the window lookup: samples of the session captured at or
\* after high_stress_start whose stress is at or above the threshold
HighStressQuery(samples, sid, high_stress_start) ==
    {i \in 1..Len(samples) :
        /\ samples[i].session_id = sid
        /\ samples[i].captured_at >= high_stress_start
        /\ samples[i].stress_score >= HIGH_STRESS_THRESHOLD}

\* earliest_high_stress = db.focus_samples.find_one(..., sort captured_at)
EarliestHighStress(samples, sid, captured_at) ==
    EarliestByCapturedAt(samples,
        HighStressQuery(samples, sid, captured_at - PromptAfter))

\* WindowFires with the age test off by one (> instead of >=)
WindowFiresStrictlyOlder(samples, sid, captured_at) ==
    LET e == EarliestHighStress(samples, sid, captured_at)
    IN  IF e = 0 THEN FALSE
        ELSE ~(captured_at - samples[e].captured_at <= PromptAfter)

\* WindowFires that also wants every sample of the session captured in the
\* window, the arriving one included, to be of high stress
WindowFiresSustained(samples, sid, captured_at) ==
    LET e == EarliestHighStress(samples, sid, captured_at)
    IN  IF e = 0 THEN FALSE
        ELSE /\ ~(captured_at - samples[e].captured_at < PromptAfter)
             /\ \A i \in 1..Len(samples) :
                   (/\ samples[i].session_id = sid
                    /\ samples[i].captured_at >= captured_at - PromptAfter
                    /\ samples[i].captured_at <= captured_at)
                   => samples[i].stress_score >= HIGH_STRESS_THRESHOLD

\* the two early returns after the window lookup: FALSE when the engine
\* returns without looking at the prompts
WindowFires(samples, sid, captured_at) ==
    LET e == EarliestHighStress(samples, sid, captured_at)
    IN  IF e = 0 THEN FALSE
        ELSE ~(captured_at - samples[e].captured_at < PromptAfter)

\* ExistingPrompt with the query's resolved_at condition left out
ExistingPromptAnyResolution(prompts, user_id, sid) ==
    FirstMatch({i \in 1..Len(prompts) :
        /\ prompts[i].user_id = user_id
        /\ prompts[i].session_id = sid
        /\ prompts[i].type = "HIGH_STRESS_BREAK"})

\* existing_prompt = db.break_prompts.find_one({user_id, session_id,
\* resolved_at: None, type: HIGH_STRESS_BREAK}): position or 0
ExistingPrompt(prompts, user_id, sid) ==
    FirstMatch({i \in 1..Len(prompts) :
        /\ prompts[i].user_id = user_id
        /\ prompts[i].session_id = sid
        /\ prompts[i].resolved_at = None
        /\ prompts[i].type = "HIGH_STRESS_BREAK"})

\* the document of db.break_prompts.insert_one
NewPrompt(prompts, user_id, sid, captured_at) ==
    [prompt_id    |-> Len(prompts) + 1,
     user_id      |-> user_id,
     session_id   |-> sid,
     type         |-> "HIGH_STRESS_BREAK",
     created_at   |-> captured_at,
     resolved_at  |-> None,
     acknowledged |-> "unset"]

\* _maybe_queue_break_prompt without its first early return
queue_prompt_IgnoringFlag(samples, prompts, session, user_id, captured_at) ==
    IF ~WindowFires(samples, session.session_id, captured_at) THEN prompts
    ELSE IF ExistingPrompt(prompts, user_id, session.session_id) # 0 THEN prompts
    ELSE Append(prompts,
                NewPrompt(prompts, user_id, session.session_id, captured_at))

\* _maybe_queue_break_prompt without the lookup of an existing prompt
queue_prompt_NoDedup(samples, prompts, session, user_id, captured_at) ==
    IF ~session.allow_prompted_breaks THEN prompts
    ELSE IF ~WindowFires(samples, session.session_id, captured_at) THEN prompts
    ELSE Append(prompts,
                NewPrompt(prompts, user_id, session.session_id, captured_at))

\* _maybe_queue_break_prompt(db, session, user_id, captured_at): the
\* prompt collection it leaves, given the samples already stored
maybe_queue_break_prompt(samples, prompts, session, user_id, captured_at) ==
    IF ~session.allow_prompted_breaks THEN prompts
    ELSE IF ~WindowFires(samples, session.session_id, captured_at) THEN prompts
    ELSE IF ExistingPrompt(prompts, user_id, session.session_id) # 0 THEN prompts
    ELSE Append(prompts,
                NewPrompt(prompts, user_id, session.session_id, captured_at))

---------------------------------------------------------------------------
(* Report aggregator (stress.py: _build_report) *)

RECURSIVE SumOf(_)
SumOf(seq) == IF seq = <<>> THEN 0 ELSE Head(seq) + SumOf(Tail(seq))

MaxOf(seq) == CHOOSE x \in {seq[i] : i \in DOMAIN seq} :
                  \A i \in DOMAIN seq : seq[i] <= x

MinOf(seq) == CHOOSE x \in {seq[i] : i \in DOMAIN seq} :
                  \A i \in DOMAIN seq : x <= seq[i]

\* the mean of the values (ten-thousandths) cut off at the thousandth
TruncatedMean(values) == SumOf(values) \div (10 * Len(values))

\* round(mean(values), 3) for values in ten-thousandths, as thousandths:
\* the nearest thousandth of the quotient sum/(10*n).  A quotient exactly
\* halfway between two thousandths is rounded by the binary value of the
\* float; the scores of the model give no such quotient.
RoundedMean(values) ==
    LET num == SumOf(values)
        den == 10 * Len(values)
        q   == num \div den
        r   == num % den
    IN  IF 2 * r < den THEN q
        ELSE IF 2 * r > den THEN q + 1
        ELSE IF q % 2 = 0 THEN q ELSE q + 1

\* round(x, 3) of one score
Round3(x) == RoundedMean(<<x>>)

\* _build_report(samples) for the list of sample documents
build_report(samples) ==
    IF samples = <<>> THEN
        [sample_count   |-> 0,
         average_focus  |-> 0,
         average_stress |-> 0,
         peak_stress    |-> 0,
         lowest_focus   |-> 0,
         graph_points   |-> <<>>]
    ELSE
        LET focus_values  == [i \in DOMAIN samples |-> samples[i].focus_score]
            stress_values == [i \in DOMAIN samples |-> samples[i].stress_score]
        IN  [sample_count   |-> Len(samples),
             average_focus  |-> RoundedMean(focus_values),
             average_stress |-> RoundedMean(stress_values),
             peak_stress    |-> Round3(MaxOf(stress_values)),
             lowest_focus   |-> Round3(MinOf(focus_values)),
             graph_points   |->
                 [i \in DOMAIN samples |->
                     [timestamp    |-> samples[i].captured_at,
                      focus_score  |-> samples[i].focus_score,
                      stress_score |-> samples[i].stress_score]]]

\* SessionSamples without the sort: the samples as they were inserted
SessionSamplesUnsorted(samples, sid) ==
    LET idx == {i \in 1..Len(samples) : samples[i].session_id = sid}
        order == [k \in 1..Cardinality(idx) |->
                    CHOOSE i \in idx :
                        Cardinality({j \in idx : j < i}) = k - 1]
    IN  [k \in DOMAIN order |-> samples[order[k]]]

\* list(db.focus_samples.find({"session_id": sid}, sort captured_at))
SessionSamples(samples, sid) ==
    LET order == SortedByCapturedAt(samples,
                    {i \in 1..Len(samples) : samples[i].session_id = sid})
    IN  [k \in DOMAIN order |-> samples[order[k]]]

---------------------------------------------------------------------------
(* Handlers.  A handler is a function of the database and the request: it  *)
(* gives the HTTP status, the identifier the response carries (0: none),    *)
(* and the database it leaves.                                              *)

Result(code, out, db) == [code |-> code, out |-> out, db |-> db]

---------------------------------------------------------------------------
(* Focus sessions and samples (stress.py) *)

\* StoredPreference that takes a missing preference as enabled
StoredPreferenceDefaultTrue(prefs, user_id) ==
    LET i == FirstMatch({j \in 1..Len(prefs) : prefs[j].user_id = user_id})
    IN  IF i = 0 THEN TRUE ELSE prefs[i].stress_prompt_enabled

\* preference = db.break_preferences.find_one({"user_id": user_id});
\* bool(preference and preference.get("stress_prompt_enabled"))
StoredPreference(prefs, user_id) ==
    LET i == FirstMatch({j \in 1..Len(prefs) : prefs[j].user_id = user_id})
    IN  IF i = 0 THEN FALSE ELSE prefs[i].stress_prompt_enabled

\* allow_prompted_breaks of the new session: the request's value, or the
\* owner's stored preference when the request carries none
ResolveAllow(prefs, user_id, allow) ==
    IF allow = "none" THEN StoredPreference(prefs, user_id)
    ELSE allow = "true"

\* POST /session/start
start_focus_session(db, user_id, allow) ==
    IF user_id = "" THEN Result(400, 0, db)
    ELSE
        LET session_id == Len(db.focus_sessions) + 1
            session ==
              [session_id            |-> session_id,
               user_id               |-> user_id,
               ended_at              |-> None,
               status                |-> "active",
               allow_prompted_breaks |->
                   ResolveAllow(db.break_preferences, user_id, allow)]
        IN  Result(201, session_id,
                [db EXCEPT !.focus_sessions = Append(@, session)])

\* float(data.get(...)) succeeds
IsNumber(x) == x # NotANumber

\* 0.0 <= score <= 1.0
InUnitRange(x) == 0 <= x /\ x <= 10000

\* the document of db.focus_samples.insert_one
NewSample(session, captured_at, focus_score, stress_score) ==
    [session_id   |-> session.session_id,
     user_id      |-> session.user_id,
     captured_at  |-> captured_at,
     focus_score  |-> focus_score,
     stress_score |-> stress_score]

\* ingest_focus_sample without the range check
ingest_IgnoringRange(db, sid, captured_at, focus_score, stress_score) ==
    LET s == FindSession(db.focus_sessions, sid)
    IN  IF sid = MissingId THEN Result(400, 0, db)
        ELSE IF s = 0 THEN Result(404, 0, db)
        ELSE IF db.focus_sessions[s].status # "active" THEN Result(409, 0, db)
        ELSE IF ~(IsNumber(focus_score) /\ IsNumber(stress_score))
             THEN Result(400, 0, db)
        ELSE
            LET session == db.focus_sessions[s]
                samples == Append(db.focus_samples,
                              NewSample(session, captured_at,
                                        focus_score, stress_score))
                prompts == maybe_queue_break_prompt(samples, db.break_prompts,
                              session, session.user_id, captured_at)
            IN  Result(201, Len(samples),
                    [db EXCEPT !.focus_samples = samples,
                               !.break_prompts = prompts])

\* ingest_focus_sample without the test of the session's status
ingest_IgnoringStatus(db, sid, captured_at, focus_score, stress_score) ==
    LET s == FindSession(db.focus_sessions, sid)
    IN  IF sid = MissingId THEN Result(400, 0, db)
        ELSE IF s = 0 THEN Result(404, 0, db)
        ELSE IF ~(IsNumber(focus_score) /\ IsNumber(stress_score))
             THEN Result(400, 0, db)
        ELSE IF ~(InUnitRange(focus_score) /\ InUnitRange(stress_score))
             THEN Result(400, 0, db)
        ELSE
            LET session == db.focus_sessions[s]
                samples == Append(db.focus_samples,
                              NewSample(session, captured_at,
                                        focus_score, stress_score))
                prompts == maybe_queue_break_prompt(samples, db.break_prompts,
                              session, session.user_id, captured_at)
            IN  Result(201, Len(samples),
                    [db EXCEPT !.focus_samples = samples,
                               !.break_prompts = prompts])

\* POST /sample
ingest_focus_sample(db, sid, captured_at, focus_score, stress_score) ==
    LET s == FindSession(db.focus_sessions, sid)
    IN  IF sid = MissingId THEN Result(400, 0, db)
        ELSE IF s = 0 THEN Result(404, 0, db)
        ELSE IF db.focus_sessions[s].status # "active" THEN Result(409, 0, db)
        ELSE IF ~(IsNumber(focus_score) /\ IsNumber(stress_score))
             THEN Result(400, 0, db)
        ELSE IF ~(InUnitRange(focus_score) /\ InUnitRange(stress_score))
             THEN Result(400, 0, db)
        ELSE
            LET session == db.focus_sessions[s]
                samples == Append(db.focus_samples,
                              NewSample(session, captured_at,
                                        focus_score, stress_score))
                prompts == maybe_queue_break_prompt(samples, db.break_prompts,
                              session, session.user_id, captured_at)
            IN  Result(201, Len(samples),
                    [db EXCEPT !.focus_samples = samples,
                               !.break_prompts = prompts])

\* UpsertReport that inserts without looking for the session's record
InsertReport(reports, doc) == Append(reports, doc)

\* db.focus_reports.update_one({"session_id": sid}, {"$set": doc},
\* upsert=True)
UpsertReport(reports, doc) ==
    LET i == FirstMatch({j \in 1..Len(reports) :
                            reports[j].session_id = doc.session_id})
    IN  IF i = 0 THEN Append(reports, doc) ELSE [reports EXCEPT ![i] = doc]

\* end_focus_session that also closes the session's pending prompts
end_focus_session_ResolvingPrompts(db, sid, ended_at) ==
    LET s == FindSession(db.focus_sessions, sid)
    IN  IF sid = MissingId THEN Result(400, 0, db)
        ELSE IF s = 0 THEN Result(404, 0, db)
        ELSE
            LET report == build_report(SessionSamples(db.focus_samples, sid))
            IN  Result(200, sid,
                    [db EXCEPT
                       !.focus_sessions = [@ EXCEPT
                           ![s].status = "completed",
                           ![s].ended_at = ended_at],
                       !.break_prompts = [i \in 1..Len(@) |->
                           IF @[i].session_id = sid /\ @[i].resolved_at = None
                           THEN [@[i] EXCEPT !.resolved_at = ended_at]
                           ELSE @[i]],
                       !.focus_reports = UpsertReport(@,
                           [session_id   |-> sid,
                            user_id      |-> db.focus_sessions[s].user_id,
                            generated_at |-> ended_at,
                            report       |-> report])])

\* end_focus_session that writes the session's samples back in the order
\* of capture, ahead of the samples of the other sessions
end_focus_session_SortingSamples(db, sid, ended_at) ==
    LET s == FindSession(db.focus_sessions, sid)
    IN  IF sid = MissingId THEN Result(400, 0, db)
        ELSE IF s = 0 THEN Result(404, 0, db)
        ELSE
            LET report == build_report(SessionSamples(db.focus_samples, sid))
            IN  Result(200, sid,
                    [db EXCEPT
                       !.focus_samples =
                           SessionSamples(@, sid)
                           \o SelectSeq(@, LAMBDA d : d.session_id # sid),
                       !.focus_sessions = [@ EXCEPT
                           ![s].status = "completed",
                           ![s].ended_at = ended_at],
                       !.focus_reports = UpsertReport(@,
                           [session_id   |-> sid,
                            user_id      |-> db.focus_sessions[s].user_id,
                            generated_at |-> ended_at,
                            report       |-> report])])

\* POST /session/end
end_focus_session(db, sid, ended_at) ==
    LET s == FindSession(db.focus_sessions, sid)
    IN  IF sid = MissingId THEN Result(400, 0, db)
        ELSE IF s = 0 THEN Result(404, 0, db)
        ELSE
            LET report == build_report(SessionSamples(db.focus_samples, sid))
            IN  Result(200, sid,
                    [db EXCEPT
                       !.focus_sessions = [@ EXCEPT
                           ![s].status = "completed",
                           ![s].ended_at = ended_at],
                       !.focus_reports = UpsertReport(@,
                           [session_id   |-> sid,
                            user_id      |-> db.focus_sessions[s].user_id,
                            generated_at |-> ended_at,
                            report       |-> report])])

\* POST /sample whose store call `call` raises: the handler has no except
\* clause around its store calls, so the request ends there with a 500 and
\* the writes made before the call stay.  A call the handler does not reach
\* cannot fail: the request is then answered as by ingest_focus_sample.
ingest_focus_sample_failing(db, sid, captured_at, focus_score, stress_score, call) ==
    LET r == ingest_focus_sample(db, sid, captured_at, focus_score, stress_score)
        s == FindSession(db.focus_sessions, sid)
        session == db.focus_sessions[s]
        samples == Append(db.focus_samples,
                      NewSample(session, captured_at, focus_score, stress_score))
        stored  == [db EXCEPT !.focus_samples = samples]
    IN  IF sid = MissingId THEN r
        ELSE IF call = "find_session" THEN Result(500, 0, db)
        ELSE IF r.code # 201 THEN r
        ELSE IF call = "insert_sample" THEN Result(500, 0, db)
        ELSE IF ~session.allow_prompted_breaks THEN r
        ELSE IF call = "find_high_stress" THEN Result(500, 0, stored)
        ELSE IF ~WindowFires(samples, sid, captured_at) THEN r
        ELSE IF call = "find_prompt" THEN Result(500, 0, stored)
        ELSE IF ExistingPrompt(db.break_prompts, session.user_id, sid) # 0 THEN r
        ELSE Result(500, 0, stored)

\* POST /session/end whose store call `call` raises: the session update
\* made before a failing report upsert stays
end_focus_session_failing(db, sid, ended_at, call) ==
    LET r == end_focus_session(db, sid, ended_at)
        s == FindSession(db.focus_sessions, sid)
    IN  IF sid = MissingId THEN r
        ELSE IF call = "find_session" THEN Result(500, 0, db)
        ELSE IF r.code # 200 THEN r
        ELSE IF call \in {"find_samples", "update_session"}
             THEN Result(500, 0, db)
        ELSE Result(500, 0,
                [db EXCEPT !.focus_sessions = [@ EXCEPT
                               ![s].status = "completed",
                               ![s].ended_at = ended_at]])

---------------------------------------------------------------------------
(* Preferences and prompts (breaks.py) *)

\* POST /preferences/stress-prompts
set_stress_prompt_preference(db, user_id, enabled) ==
    IF user_id = "" THEN Result(400, 0, db)
    ELSE
        LET i   == FirstMatch({j \in 1..Len(db.break_preferences) :
                                  db.break_preferences[j].user_id = user_id})
            doc == [user_id |-> user_id, stress_prompt_enabled |-> enabled]
        IN  Result(200, 0,
                [db EXCEPT !.break_preferences =
                    IF i = 0 THEN Append(@, doc) ELSE [@ EXCEPT ![i] = doc]])

\* PolledPrompt with the query's resolved_at condition left out
PolledPromptAnyResolution(prompts, user_id) ==
    OldestByCreatedAt(prompts,
        {i \in 1..Len(prompts) : prompts[i].user_id = user_id})

\* PolledPrompt without the sort: the first stored match
PolledPromptUnsorted(prompts, user_id) ==
    FirstMatch({i \in 1..Len(prompts) :
        prompts[i].user_id = user_id /\ prompts[i].resolved_at = None})

\* prompt = db.break_prompts.find_one({"user_id": user_id,
\* "resolved_at": None}, sort=[("created_at", 1)]): position or 0
PolledPrompt(prompts, user_id) ==
    OldestByCreatedAt(prompts,
        {i \in 1..Len(prompts) :
            prompts[i].user_id = user_id /\ prompts[i].resolved_at = None})

\* poll_break_prompt that marks the prompt it shows as resolved
poll_break_prompt_Resolving(db, user_id) ==
    IF user_id = "" THEN Result(400, 0, db)
    ELSE
        LET p == PolledPrompt(db.break_prompts, user_id)
        IN  IF p = 0 THEN Result(200, 0, db)
            ELSE Result(200, db.break_prompts[p].prompt_id,
                    [db EXCEPT !.break_prompts[p].resolved_at =
                                   db.break_prompts[p].created_at])

\* GET /prompt/poll: out is the prompt_id shown, 0 for show_prompt False
poll_break_prompt(db, user_id) ==
    IF user_id = "" THEN Result(400, 0, db)
    ELSE
        LET p == PolledPrompt(db.break_prompts, user_id)
        IN  Result(200, IF p = 0 THEN 0 ELSE db.break_prompts[p].prompt_id, db)

\* AckMatch with the query's resolved_at condition left out
AckMatchAnyResolution(prompts, prompt_id) ==
    FirstMatch({i \in 1..Len(prompts) : prompts[i].prompt_id = prompt_id})

\* the document db.break_prompts.update_one({"prompt_id": prompt_id,
\* "resolved_at": None}, ...) matches: position or 0
AckMatch(prompts, prompt_id) ==
    FirstMatch({i \in 1..Len(prompts) :
        prompts[i].prompt_id = prompt_id /\ prompts[i].resolved_at = None})

\* bool(data.get("acknowledged", True)) as stored
AckFlag(acknowledged) == IF acknowledged THEN "true" ELSE "false"

\* the update of POST /prompt/ack on the matched document
AckUpdate(prompts, m, resolved_at, acknowledged) ==
    [prompts EXCEPT ![m].resolved_at = resolved_at,
                    ![m].acknowledged = AckFlag(acknowledged)]

\* POST /prompt/ack
acknowledge_break_prompt(db, prompt_id, resolved_at, acknowledged) ==
    LET m == AckMatch(db.break_prompts, prompt_id)
    IN  IF prompt_id = MissingId THEN Result(400, 0, db)
        ELSE IF m = 0 THEN Result(404, 0, db)
        ELSE Result(200, prompt_id,
                [db EXCEPT !.break_prompts =
                    AckUpdate(@, m, resolved_at, acknowledged)])

---------------------------------------------------------------------------
(* Pomodoro timer (breaks.py) *)

Max(a, b) == IF a >= b THEN a ELSE b

Min(a, b) == IF a <= b THEN a ELSE b

\* _status_from_session without the clamp of the elapsed time at zero
status_from_session_Unclamped(session, reference_time) ==
    LET elapsed_seconds == reference_time - session.started_at
        focus_seconds   == session.focus_minutes * 60
        break_seconds   == session.break_minutes * 60
        cycles          == Max(session.cycles, 1)
        cycle_seconds   == focus_seconds + break_seconds
        total_seconds   == (cycle_seconds * cycles) - break_seconds
        in_cycle_second == elapsed_seconds % cycle_seconds
    IN  IF elapsed_seconds >= total_seconds THEN
            [phase |-> "completed", cycle_index |-> cycles,
             seconds_remaining |-> 0]
        ELSE IF in_cycle_second < focus_seconds THEN
            [phase |-> "focus",
             cycle_index |-> Min((elapsed_seconds \div cycle_seconds) + 1, cycles),
             seconds_remaining |-> focus_seconds - in_cycle_second]
        ELSE
            [phase |-> "break",
             cycle_index |-> Min((elapsed_seconds \div cycle_seconds) + 1, cycles),
             seconds_remaining |-> cycle_seconds - in_cycle_second]

\* _status_from_session that counts a break after the last focus period
status_from_session_WithFinalBreak(session, reference_time) ==
    LET elapsed_seconds == Max(reference_time - session.started_at, 0)
        focus_seconds   == session.focus_minutes * 60
        break_seconds   == session.break_minutes * 60
        cycles          == Max(session.cycles, 1)
        cycle_seconds   == focus_seconds + break_seconds
        total_seconds   == cycle_seconds * cycles
        in_cycle_second == elapsed_seconds % cycle_seconds
    IN  IF elapsed_seconds >= total_seconds THEN
            [phase |-> "completed", cycle_index |-> cycles,
             seconds_remaining |-> 0]
        ELSE IF in_cycle_second < focus_seconds THEN
            [phase |-> "focus",
             cycle_index |-> Min((elapsed_seconds \div cycle_seconds) + 1, cycles),
             seconds_remaining |-> focus_seconds - in_cycle_second]
        ELSE
            [phase |-> "break",
             cycle_index |-> Min((elapsed_seconds \div cycle_seconds) + 1, cycles),
             seconds_remaining |-> cycle_seconds - in_cycle_second]

\* _status_from_session whose focus countdown runs to the end of the cycle
status_from_session_CountingCycle(session, reference_time) ==
    LET elapsed_seconds == Max(reference_time - session.started_at, 0)
        focus_seconds   == session.focus_minutes * 60
        break_seconds   == session.break_minutes * 60
        cycles          == Max(session.cycles, 1)
        cycle_seconds   == focus_seconds + break_seconds
        total_seconds   == (cycle_seconds * cycles) - break_seconds
        in_cycle_second == elapsed_seconds % cycle_seconds
    IN  IF elapsed_seconds >= total_seconds THEN
            [phase |-> "completed", cycle_index |-> cycles,
             seconds_remaining |-> 0]
        ELSE IF in_cycle_second < focus_seconds THEN
            [phase |-> "focus",
             cycle_index |-> Min((elapsed_seconds \div cycle_seconds) + 1, cycles),
             seconds_remaining |-> cycle_seconds - in_cycle_second]
        ELSE
            [phase |-> "break",
             cycle_index |-> Min((elapsed_seconds \div cycle_seconds) + 1, cycles),
             seconds_remaining |-> cycle_seconds - in_cycle_second]

\* _status_from_session that numbers the cycles from zero
status_from_session_ZeroBased(session, reference_time) ==
    LET elapsed_seconds == Max(reference_time - session.started_at, 0)
        focus_seconds   == session.focus_minutes * 60
        break_seconds   == session.break_minutes * 60
        cycles          == Max(session.cycles, 1)
        cycle_seconds   == focus_seconds + break_seconds
        total_seconds   == (cycle_seconds * cycles) - break_seconds
        in_cycle_second == elapsed_seconds % cycle_seconds
    IN  IF elapsed_seconds >= total_seconds THEN
            [phase |-> "completed", cycle_index |-> cycles,
             seconds_remaining |-> 0]
        ELSE IF in_cycle_second < focus_seconds THEN
            [phase |-> "focus",
             cycle_index |-> Min(elapsed_seconds \div cycle_seconds, cycles),
             seconds_remaining |-> focus_seconds - in_cycle_second]
        ELSE
            [phase |-> "break",
             cycle_index |-> Min(elapsed_seconds \div cycle_seconds, cycles),
             seconds_remaining |-> cycle_seconds - in_cycle_second]

\* _status_from_session(session, reference_time)
status_from_session(session, reference_time) ==
    LET elapsed_seconds == Max(reference_time - session.started_at, 0)
        focus_seconds   == session.focus_minutes * 60
        break_seconds   == session.break_minutes * 60
        cycles          == Max(session.cycles, 1)
        cycle_seconds   == focus_seconds + break_seconds
        total_seconds   == (cycle_seconds * cycles) - break_seconds
        in_cycle_second == elapsed_seconds % cycle_seconds
    IN  IF elapsed_seconds >= total_seconds THEN
            [phase |-> "completed", cycle_index |-> cycles,
             seconds_remaining |-> 0]
        ELSE IF in_cycle_second < focus_seconds THEN
            [phase |-> "focus",
             cycle_index |-> Min((elapsed_seconds \div cycle_seconds) + 1, cycles),
             seconds_remaining |-> focus_seconds - in_cycle_second]
        ELSE
            [phase |-> "break",
             cycle_index |-> Min((elapsed_seconds \div cycle_seconds) + 1, cycles),
             seconds_remaining |-> cycle_seconds - in_cycle_second]

\* start_pomodoro whose test leaves out the cycles
start_pomodoro_AnyCycles(db, user_id, focus_minutes, break_minutes, cycles, started_at) ==
    IF user_id = "" THEN Result(400, 0, db)
    ELSE IF focus_minutes <= 0 \/ break_minutes <= 0
         THEN Result(400, 0, db)
    ELSE
        LET session_id == Len(db.pomodoro_sessions) + 1
            session ==
              [session_id    |-> session_id,
               user_id       |-> user_id,
               focus_minutes |-> focus_minutes,
               break_minutes |-> break_minutes,
               cycles        |-> cycles,
               started_at    |-> started_at,
               ended_at      |-> None,
               status        |-> "active"]
        IN  Result(201, session_id,
                [db EXCEPT !.pomodoro_sessions = Append(@, session)])

\* POST /pomodoro/start
start_pomodoro(db, user_id, focus_minutes, break_minutes, cycles, started_at) ==
    IF user_id = "" THEN Result(400, 0, db)
    ELSE IF focus_minutes <= 0 \/ break_minutes <= 0 \/ cycles <= 0
         THEN Result(400, 0, db)
    ELSE
        LET session_id == Len(db.pomodoro_sessions) + 1
            session ==
              [session_id    |-> session_id,
               user_id       |-> user_id,
               focus_minutes |-> focus_minutes,
               break_minutes |-> break_minutes,
               cycles        |-> cycles,
               started_at    |-> started_at,
               ended_at      |-> None,
               status        |-> "active"]
        IN  Result(201, session_id,
                [db EXCEPT !.pomodoro_sessions = Append(@, session)])

\* get_pomodoro_status that writes whenever the phase is completed
get_pomodoro_status_AlwaysWriting(db, sid, now_utc) ==
    LET s == FindSession(db.pomodoro_sessions, sid)
    IN  IF sid = MissingId THEN Result(400, 0, db)
        ELSE IF s = 0 THEN Result(404, 0, db)
        ELSE
            LET session == db.pomodoro_sessions[s]
                status  == status_from_session(session, now_utc)
            IN  IF status.phase = "completed"
                THEN Result(200, sid,
                        [db EXCEPT !.pomodoro_sessions = [@ EXCEPT
                            ![s].status = "completed",
                            ![s].ended_at = now_utc]])
                ELSE Result(200, sid, db)

\* GET /pomodoro/status, read at the wall-clock instant now_utc; the
\* status payload is status_from_session of the session found
get_pomodoro_status(db, sid, now_utc) ==
    LET s == FindSession(db.pomodoro_sessions, sid)
    IN  IF sid = MissingId THEN Result(400, 0, db)
        ELSE IF s = 0 THEN Result(404, 0, db)
        ELSE
            LET session == db.pomodoro_sessions[s]
                status  == status_from_session(session, now_utc)
            IN  IF status.phase = "completed" /\ session.status # "completed"
                THEN Result(200, sid,
                        [db EXCEPT !.pomodoro_sessions = [@ EXCEPT
                            ![s].status = "completed",
                            ![s].ended_at = now_utc]])
                ELSE Result(200, sid, db)

\* StopMatch with the query's status condition left out
StopMatchAnyStatus(sessions, sid) ==
    FirstMatch({i \in 1..Len(sessions) : sessions[i].session_id = sid})

\* the document db.pomodoro_sessions.update_one({"session_id": sid,
\* "status": "active"}, ...) matches: position or 0
StopMatch(sessions, sid) ==
    FirstMatch({i \in 1..Len(sessions) :
        sessions[i].session_id = sid /\ sessions[i].status = "active"})

\* the update of POST /pomodoro/stop on the matched document
StopUpdate(sessions, m, ended_at) ==
    [sessions EXCEPT ![m].status = "cancelled", ![m].ended_at = ended_at]

\* POST /pomodoro/stop
stop_pomodoro(db, sid, ended_at) ==
    LET m == StopMatch(db.pomodoro_sessions, sid)
    IN  IF sid = MissingId THEN Result(400, 0, db)
        ELSE IF m = 0 THEN Result(404, 0, db)
        ELSE Result(200, sid,
                [db EXCEPT !.pomodoro_sessions = StopUpdate(@, m, ended_at)])

---------------------------------------------------------------------------
(* Requests handled one at a time: each step is one whole handler *)

Init ==
    /\ focus_sessions = <<>>
    /\ focus_samples = <<>>
    /\ break_prompts = <<>>
    /\ focus_reports = <<>>
    /\ pomodoro_sessions = <<>>
    /\ break_preferences = <<>>
    /\ procs = <<>>
    /\ memory_db = EmptyDB
    /\ reachable = TRUE
    /\ live_stress_snapshots = <<>>
    /\ live_analysis_cache = [u \in Users |-> NoSnapshot]

\* the database after the handler returned r; no request is left in flight
Commit(r) ==
    /\ UNCHANGED <<procs, memory_db, reachable,
                   live_stress_snapshots, live_analysis_cache>>
    /\ focus_sessions' = r.db.focus_sessions
    /\ focus_samples' = r.db.focus_samples
    /\ break_prompts' = r.db.break_prompts
    /\ focus_reports' = r.db.focus_reports
    /\ pomodoro_sessions' = r.db.pomodoro_sessions
    /\ break_preferences' = r.db.break_preferences

\* identifiers a client may name: every one the store may hold, one that is
\* never issued (the largest), and none at all (MissingId)
Ids(max) == 0..(max + 1)

StartFocus(max, users, allows) ==
    /\ Len(focus_sessions) < max
    /\ \E u \in users, a \in allows : Commit(start_focus_session(DB, u, a))

Ingest(max, ids, scores) ==
    /\ Len(focus_samples) < max
    /\ \E sid \in ids, c \in CaptureTimes, sc \in scores :
          Commit(ingest_focus_sample(DB, sid, c, sc[1], sc[2]))

EndFocus(ids, times) ==
    \E sid \in ids, t \in times : Commit(end_focus_session(DB, sid, t))

SetPreference(users) ==
    \E u \in users, e \in BOOLEAN :
        Commit(set_stress_prompt_preference(DB, u, e))

Poll(users) == \E u \in users : Commit(poll_break_prompt(DB, u))

Acknowledge(ids, acks) ==
    \E pid \in ids, a \in acks :
        Commit(acknowledge_break_prompt(DB, pid, a[1], a[2]))

Next ==
    \/ StartFocus(MaxSessions, Users \cup {""}, AllowInputs)
    \/ Ingest(MaxSamples, Ids(MaxSessions), ValidScores \cup InvalidScores)
    \/ EndFocus(Ids(MaxSessions), EndTimes)
    \/ SetPreference(PrefUsers \cup {""})
    \/ Poll(Users \cup {""})
    \/ Acknowledge(Ids(MaxSamples), AckInputs)

Spec == Init /\ [][Next]_vars

StartPomodoro(max, users, params) ==
    /\ Len(pomodoro_sessions) < max
    /\ \E u \in users, p \in params :
          Commit(start_pomodoro(DB, u, p[1], p[2], p[3], 0))

PomodoroStatus(ids, times) ==
    \E sid \in ids, now \in times : Commit(get_pomodoro_status(DB, sid, now))

StopPomodoro(ids, times) ==
    \E sid \in ids, t \in times : Commit(stop_pomodoro(DB, sid, t))

\* two sessions of any two owners, prompts allowed, high-stress samples
NextPair ==
    \/ StartFocus(PairSessions, Users, {"true"})
    \/ Ingest(PairSamples, 1..PairSessions, {HighStress})
    \/ EndFocus(1..PairSessions, {900})
    \/ Poll(Users)
    \/ Acknowledge(1..PairSamples, {<<700, TRUE>>})

SpecPair == Init /\ [][NextPair]_vars

\* every handler of stress.py and breaks.py that writes or serves prompts,
\* sessions or timers: one owner, prompts allowed or taken from the
\* preference, high-stress samples
NextAll ==
    \/ StartFocus(MaxSessions, {"u1"}, {"true", "none"})
    \/ Ingest(MaxSamples, 1..MaxSessions, {HighStress})
    \/ EndFocus(1..MaxSessions, {900})
    \/ SetPreference({"u1"})
    \/ Poll({"u1"})
    \/ Acknowledge(1..MaxSamples, AckInputs)
    \/ StartPomodoro(MaxPomodoros, {"u1", ""}, PomodoroParams)
    \/ PomodoroStatus(Ids(MaxPomodoros), StatusTimes)
    \/ StopPomodoro(Ids(MaxPomodoros), StopTimes)

SpecAll == Init /\ [][NextAll]_vars

\* The phase computation on its own: one timer, started by start_pomodoro
\* with any of the PhaseParams at any of the PhaseStarts, and read by
\* get_pomodoro_status at the PhaseTimes.
InitPhase ==
    /\ focus_sessions = <<>>
    /\ focus_samples = <<>>
    /\ break_prompts = <<>>
    /\ focus_reports = <<>>
    /\ break_preferences = <<>>
    /\ procs = <<>>
    /\ memory_db = EmptyDB
    /\ reachable = TRUE
    /\ live_stress_snapshots = <<>>
    /\ live_analysis_cache = [u \in Users |-> NoSnapshot]
    /\ \E p \in PhaseParams, t \in PhaseStarts :
          pomodoro_sessions =
              start_pomodoro(EmptyDB, "u1", p[1], p[2], p[3], t)
                  .db.pomodoro_sessions

NextPhase == PomodoroStatus({1}, PhaseTimes)

SpecPhase == InitPhase /\ [][NextPhase]_vars

\* the database after the samples of the list inputs (<<captured_at,
\* focus_score, stress_score>> each) were ingested for session sid, in order
RECURSIVE IngestAll(_, _, _)
IngestAll(db, sid, inputs) ==
    IF inputs = <<>> THEN db
    ELSE IngestAll(ingest_focus_sample(db, sid, inputs[1][1], inputs[1][2],
                                       inputs[1][3]).db,
                   sid, Tail(inputs))

\* The report computation on its own: one session without prompted breaks
\* that holds any list of up to ReportSamples samples, ingested in any
\* order of capture, and is ended; the end builds and stores the report.
InitReport ==
    \E n \in 0..ReportSamples :
        \E inputs \in [1..n -> {<<c, sc[1], sc[2]>> :
                                    c \in ReportTimes, sc \in ReportScores}] :
            LET db == IngestAll(start_focus_session(EmptyDB, "u1", "false").db,
                                1, inputs)
            IN  /\ focus_sessions = db.focus_sessions
                /\ focus_samples = db.focus_samples
                /\ break_prompts = db.break_prompts
                /\ focus_reports = db.focus_reports
                /\ pomodoro_sessions = db.pomodoro_sessions
                /\ break_preferences = db.break_preferences
                /\ procs = <<>>
                /\ memory_db = EmptyDB
                /\ reachable = TRUE
                /\ live_stress_snapshots = <<>>
                /\ live_analysis_cache = [u \in Users |-> NoSnapshot]

NextReport == EndFocus({1}, {900})

SpecReport == InitReport /\ [][NextReport]_vars

\* The store behind get_db().  Each request asks get_db() for its database:
\* MongoDB when its ping answers, else the process-wide in-memory database.
\* MongoDB may stop answering at any time, also between two store calls of
\* one request, and may come back.
get_db == IF reachable THEN DB ELSE memory_db

\* the database get_db() gave holds r.db after the handler returned r
Served(r) ==
    /\ IF reachable
       THEN /\ focus_sessions' = r.db.focus_sessions
            /\ focus_samples' = r.db.focus_samples
            /\ break_prompts' = r.db.break_prompts
            /\ focus_reports' = r.db.focus_reports
            /\ pomodoro_sessions' = r.db.pomodoro_sessions
            /\ break_preferences' = r.db.break_preferences
            /\ memory_db' = memory_db
       ELSE /\ memory_db' = r.db
            /\ UNCHANGED <<focus_sessions, focus_samples, break_prompts,
                           focus_reports, pomodoro_sessions, break_preferences>>
    /\ UNCHANGED <<procs, reachable, live_stress_snapshots, live_analysis_cache>>

\* MongoDB stops answering while it serves a request: the request has
\* left r.db behind and is answered r.code
Failed(r) ==
    /\ reachable
    /\ r.code = 500
    /\ reachable' = FALSE
    /\ focus_sessions' = r.db.focus_sessions
    /\ focus_samples' = r.db.focus_samples
    /\ break_prompts' = r.db.break_prompts
    /\ focus_reports' = r.db.focus_reports
    /\ pomodoro_sessions' = r.db.pomodoro_sessions
    /\ break_preferences' = r.db.break_preferences
    /\ UNCHANGED <<procs, memory_db,
                   live_stress_snapshots, live_analysis_cache>>

StoreFails ==
    /\ reachable
    /\ reachable' = FALSE
    /\ UNCHANGED <<focus_sessions, focus_samples, break_prompts, focus_reports,
                   pomodoro_sessions, break_preferences, procs, memory_db,
                   live_stress_snapshots, live_analysis_cache>>

StoreRecovers ==
    /\ ~reachable
    /\ reachable' = TRUE
    /\ UNCHANGED <<focus_sessions, focus_samples, break_prompts, focus_reports,
                   pomodoro_sessions, break_preferences, procs, memory_db,
                   live_stress_snapshots, live_analysis_cache>>

ServeStartFocus ==
    /\ Len(focus_sessions) + Len(memory_db.focus_sessions) < MaxSessions
    /\ Served(start_focus_session(get_db, "u1", "true"))

ServeIngest ==
    /\ Len(focus_samples) + Len(memory_db.focus_samples) < MaxSamples
    /\ \E sid \in 1..MaxSessions, c \in {0, PromptAfter} :
          Served(ingest_focus_sample(get_db, sid, c,
                                     HighStress[1], HighStress[2]))

ServeEndFocus ==
    \E sid \in 1..MaxSessions : Served(end_focus_session(get_db, sid, 900))

ServePoll == Served(poll_break_prompt(get_db, "u1"))

ServeAcknowledge ==
    \E pid \in 1..MaxSamples :
        Served(acknowledge_break_prompt(get_db, pid, 700, TRUE))

ServeStartPomodoro ==
    /\ Len(pomodoro_sessions) + Len(memory_db.pomodoro_sessions) < MaxPomodoros
    /\ Served(start_pomodoro(get_db, "u1", 1, 1, 1, 0))

ServePomodoroStatus ==
    \E sid \in 1..MaxPomodoros : Served(get_pomodoro_status(get_db, sid, 60))

ServeStopPomodoro ==
    \E sid \in 1..MaxPomodoros : Served(stop_pomodoro(get_db, sid, 45))

IngestFails ==
    /\ Len(focus_samples) < MaxSamples
    /\ \E sid \in 1..MaxSessions, c \in {0, PromptAfter},
          k \in DOMAIN IngestCalls :
          Failed(ingest_focus_sample_failing(DB, sid, c, HighStress[1],
                                             HighStress[2], IngestCalls[k]))

EndFocusFails ==
    \E sid \in 1..MaxSessions, k \in DOMAIN EndCalls :
        Failed(end_focus_session_failing(DB, sid, 900, EndCalls[k]))

NextStore ==
    \/ StoreFails
    \/ StoreRecovers
    \/ ServeStartFocus
    \/ ServeIngest
    \/ ServeEndFocus
    \/ ServePoll
    \/ ServeAcknowledge
    \/ ServeStartPomodoro
    \/ ServePomodoroStatus
    \/ ServeStopPomodoro
    \/ IngestFails
    \/ EndFocusFails

SpecStore == Init /\ [][NextStore]_vars

---------------------------------------------------------------------------
(* Requests in flight at once.  The server handles each request on a       *)
(* thread of its own; a handler's store calls are its steps, and steps of  *)
(* different requests interleave.  insert_one and find_one act on the      *)
(* store at one instant.  update_one of the fallback store                 *)
(* (_InMemoryCollection, which get_db hands out whenever MongoDB cannot be *)
(* reached) looks for the matching document and replaces it later, with    *)
(* no lock between the two, so other requests may run in between; running  *)
(* the two steps back to back is the update of a store that applies it at  *)
(* one instant.                                                            *)

\* a request in flight or answered: the handler (op), where it stands (pc),
\* the identifier and instant it carries, its further argument, the
\* document it holds (found at position m) and the HTTP status it gave
Request(op, pc, target, t, arg, m, doc, code) ==
    [op |-> op, pc |-> pc, target |-> target, t |-> t, arg |-> arg,
     m |-> m, doc |-> doc, code |-> code]

\* request p moves on to pc holding doc at m; code # 0 is its answer
Advance(p, pc, m, doc, code) ==
    /\ procs' = [procs EXCEPT ![p].pc = pc, ![p].m = m, ![p].doc = doc,
                              ![p].code = code]
    /\ UNCHANGED <<memory_db, reachable,
                   live_stress_snapshots, live_analysis_cache>>

At(p, op, pc) == procs[p].op = op /\ procs[p].pc = pc

\* POST /sample up to the insert: the session lookup and the validation
IngestArrive(max, ids, times, scores) ==
    /\ Len(procs) < max
    /\ \E sid \in ids, c \in times, sc \in scores :
          LET r == ingest_focus_sample(DB, sid, c, sc[1], sc[2])
              s == FindSession(focus_sessions, sid)
          IN  procs' = Append(procs,
                  IF r.code # 201
                  THEN Request("ingest", "done", sid, c, sc, 0, <<>>, r.code)
                  ELSE Request("ingest", "insert_sample", sid, c, sc, s,
                               focus_sessions[s], 0))
    /\ UNCHANGED <<focus_sessions, focus_samples, break_prompts,
                   focus_reports, pomodoro_sessions, break_preferences,
                   memory_db, reachable,
                   live_stress_snapshots, live_analysis_cache>>

\* db.focus_samples.insert_one(sample)
IngestInsertSample(p) ==
    /\ At(p, "ingest", "insert_sample")
    /\ focus_samples' = Append(focus_samples,
          NewSample(procs[p].doc, procs[p].t, procs[p].arg[1], procs[p].arg[2]))
    /\ Advance(p, "window", procs[p].m, procs[p].doc, 0)
    /\ UNCHANGED <<focus_sessions, break_prompts, focus_reports,
                   pomodoro_sessions, break_preferences>>

\* the flag test, the window lookup and the two early returns after it
IngestWindowLookup(p) ==
    /\ At(p, "ingest", "window")
    /\ IF /\ procs[p].doc.allow_prompted_breaks
          /\ WindowFires(focus_samples, procs[p].doc.session_id, procs[p].t)
       THEN Advance(p, "existing", procs[p].m, procs[p].doc, 0)
       ELSE Advance(p, "done", procs[p].m, procs[p].doc, 201)
    /\ UNCHANGED <<focus_sessions, focus_samples, break_prompts,
                   focus_reports, pomodoro_sessions, break_preferences>>

\* the lookup of an unresolved prompt and the early return after it
IngestExistingLookup(p) ==
    /\ At(p, "ingest", "existing")
    /\ IF ExistingPrompt(break_prompts, procs[p].doc.user_id,
                         procs[p].doc.session_id) # 0
       THEN Advance(p, "done", procs[p].m, procs[p].doc, 201)
       ELSE Advance(p, "insert_prompt", procs[p].m, procs[p].doc, 0)
    /\ UNCHANGED <<focus_sessions, focus_samples, break_prompts,
                   focus_reports, pomodoro_sessions, break_preferences>>

\* db.break_prompts.insert_one(...) and the 201 answer
IngestInsertPrompt(p) ==
    /\ At(p, "ingest", "insert_prompt")
    /\ break_prompts' = Append(break_prompts,
          NewPrompt(break_prompts, procs[p].doc.user_id,
                    procs[p].doc.session_id, procs[p].t))
    /\ Advance(p, "done", procs[p].m, procs[p].doc, 201)
    /\ UNCHANGED <<focus_sessions, focus_samples, focus_reports,
                   pomodoro_sessions, break_preferences>>

\* POST /prompt/ack up to the update
AckArrive(max, ids, acks) ==
    /\ Len(procs) < max
    /\ \E pid \in ids, a \in acks :
          procs' = Append(procs,
              IF pid = MissingId
              THEN Request("ack", "done", pid, a[1], a[2], 0, <<>>, 400)
              ELSE Request("ack", "match", pid, a[1], a[2], 0, <<>>, 0))
    /\ UNCHANGED <<focus_sessions, focus_samples, break_prompts,
                   focus_reports, pomodoro_sessions, break_preferences,
                   memory_db, reachable,
                   live_stress_snapshots, live_analysis_cache>>

\* update_one: the loop finds the document the query matches, or none and
\* the handler answers 404
AckMatchStep(p) ==
    /\ At(p, "ack", "match")
    /\ LET m == AckMatch(break_prompts, procs[p].target)
       IN  IF m = 0 THEN Advance(p, "done", 0, <<>>, 404)
           ELSE Advance(p, "write", m, break_prompts[m], 0)
    /\ UNCHANGED <<focus_sessions, focus_samples, break_prompts,
                   focus_reports, pomodoro_sessions, break_preferences>>

\* update_one: the copy of the document found, with $set applied, replaces
\* the document at its position; matched_count is 1 and the answer 200
AckWriteStep(p) ==
    /\ At(p, "ack", "write")
    /\ break_prompts' =
          AckUpdate([break_prompts EXCEPT ![procs[p].m] = procs[p].doc],
                    procs[p].m, procs[p].t, procs[p].arg)
    /\ Advance(p, "done", procs[p].m, procs[p].doc, 200)
    /\ UNCHANGED <<focus_sessions, focus_samples, focus_reports,
                   pomodoro_sessions, break_preferences>>

\* POST /pomodoro/stop up to the update
StopArrive(max, ids, times) ==
    /\ Len(procs) < max
    /\ \E sid \in ids, t \in times :
          procs' = Append(procs,
              IF sid = MissingId
              THEN Request("stop", "done", sid, t, 0, 0, <<>>, 400)
              ELSE Request("stop", "match", sid, t, 0, 0, <<>>, 0))
    /\ UNCHANGED <<focus_sessions, focus_samples, break_prompts,
                   focus_reports, pomodoro_sessions, break_preferences,
                   memory_db, reachable,
                   live_stress_snapshots, live_analysis_cache>>

StopMatchStep(p) ==
    /\ At(p, "stop", "match")
    /\ LET m == StopMatch(pomodoro_sessions, procs[p].target)
       IN  IF m = 0 THEN Advance(p, "done", 0, <<>>, 404)
           ELSE Advance(p, "write", m, pomodoro_sessions[m], 0)
    /\ UNCHANGED <<focus_sessions, focus_samples, break_prompts,
                   focus_reports, pomodoro_sessions, break_preferences>>

StopWriteStep(p) ==
    /\ At(p, "stop", "write")
    /\ pomodoro_sessions' =
          StopUpdate([pomodoro_sessions EXCEPT ![procs[p].m] = procs[p].doc],
                     procs[p].m, procs[p].t)
    /\ Advance(p, "done", procs[p].m, procs[p].doc, 200)
    /\ UNCHANGED <<focus_sessions, focus_samples, break_prompts,
                   focus_reports, break_preferences>>

\* one session with prompts allowed and one pomodoro session, and up to
\* MaxRequests ingest, acknowledge and stop requests whose store calls
\* interleave with each other and with requests that end the session
NextConc ==
    \/ StartFocus(MaxSessions, {"u1"}, {"true"})
    \/ StartPomodoro(MaxPomodoros, {"u1"}, {<<1, 1, 1>>})
    \/ EndFocus(1..MaxSessions, {900})
    \/ IngestArrive(MaxRequests, 1..MaxSessions, {0, PromptAfter}, {HighStress})
    \/ \E p \in DOMAIN procs : IngestInsertSample(p)
    \/ \E p \in DOMAIN procs : IngestWindowLookup(p)
    \/ \E p \in DOMAIN procs : IngestExistingLookup(p)
    \/ \E p \in DOMAIN procs : IngestInsertPrompt(p)
    \/ AckArrive(MaxRequests, Ids(MaxSessions), AckInputs)
    \/ \E p \in DOMAIN procs : AckMatchStep(p)
    \/ \E p \in DOMAIN procs : AckWriteStep(p)
    \/ StopArrive(MaxRequests, Ids(MaxPomodoros), ConcStopTimes)
    \/ \E p \in DOMAIN procs : StopMatchStep(p)
    \/ \E p \in DOMAIN procs : StopWriteStep(p)

SpecConc == Init /\ [][NextConc]_vars

\* A notification client that drains the prompts of an owner.  Sessions of
\* any two owners take samples until the client begins; from then on no
\* sample is ingested, and the client polls the owner and acknowledges the
\* prompt the poll returned, again and again.  The client is procs[1]: arg
\* is the owner, target and code the answer of its latest poll.
DrainStartFocus ==
    /\ procs = <<>>
    /\ StartFocus(PairSessions, Users, {"true"})

DrainIngest ==
    /\ procs = <<>>
    /\ Len(focus_samples) < PairSamples
    /\ \E sid \in 1..PairSessions, c \in {0, PromptAfter} :
          Commit(ingest_focus_sample(DB, sid, c, HighStress[1], HighStress[2]))

DrainBegin ==
    /\ procs = <<>>
    /\ \E u \in Users :
          procs' = <<Request("drain", "poll", 0, 0, u, 0, <<>>, 0)>>
    /\ UNCHANGED <<focus_sessions, focus_samples, break_prompts,
                   focus_reports, pomodoro_sessions, break_preferences,
                   memory_db, reachable,
                   live_stress_snapshots, live_analysis_cache>>

\* GET /prompt/poll of the client
DrainPoll ==
    /\ procs # <<>>
    /\ procs[1].pc = "poll"
    /\ LET r == poll_break_prompt(DB, procs[1].arg)
       IN  /\ procs' = [procs EXCEPT
                           ![1].pc = IF r.out = 0 THEN "poll" ELSE "ack",
                           ![1].target = r.out,
                           ![1].code = r.code]
           /\ focus_sessions' = r.db.focus_sessions
           /\ focus_samples' = r.db.focus_samples
           /\ break_prompts' = r.db.break_prompts
           /\ focus_reports' = r.db.focus_reports
           /\ pomodoro_sessions' = r.db.pomodoro_sessions
           /\ break_preferences' = r.db.break_preferences
    /\ UNCHANGED <<memory_db, reachable,
                   live_stress_snapshots, live_analysis_cache>>

\* POST /prompt/ack of the client, for the prompt its poll returned
DrainAck ==
    /\ procs # <<>>
    /\ procs[1].pc = "ack"
    /\ LET r == acknowledge_break_prompt(DB, procs[1].target, 700, TRUE)
       IN  /\ procs' = [procs EXCEPT ![1].pc = "poll", ![1].code = r.code]
           /\ focus_sessions' = r.db.focus_sessions
           /\ focus_samples' = r.db.focus_samples
           /\ break_prompts' = r.db.break_prompts
           /\ focus_reports' = r.db.focus_reports
           /\ pomodoro_sessions' = r.db.pomodoro_sessions
           /\ break_preferences' = r.db.break_preferences
    /\ UNCHANGED <<memory_db, reachable,
                   live_stress_snapshots, live_analysis_cache>>

NextDrain ==
    \/ DrainStartFocus
    \/ DrainIngest
    \/ DrainBegin
    \/ DrainPoll
    \/ DrainAck

\* the client keeps sending its next request, and the server answers it
SpecDrain ==
    Init /\ [][NextDrain]_vars /\ WF_vars(DrainPoll) /\ WF_vars(DrainAck)

---------------------------------------------------------------------------
(* The latest snapshot of an owner: _save_live_analysis writes it to the   *)
(* store and then to the cache, get_latest_video_snapshot reads the cache  *)
(* and falls back to the store.  Frames of several streams are analysed at *)
(* once; a step is one store call or one section under the lock.           *)

\* saves and reads taken together
MaxSaves == 3

\* capture times of the analysed frames
SnapshotTimes == {0, 5}

\* the snapshot _save_live_analysis builds from an analysed frame
Snapshot(user_id, session_id, captured_at, focus_score, stress_score) ==
    [user_id |-> user_id, session_id |-> session_id,
     captured_at |-> captured_at, focus_score |-> focus_score,
     stress_score |-> stress_score]

\* db.live_stress_snapshots.update_one({"user_id": user_id},
\* {"$set": snapshot}, upsert=True)
UpsertSnapshot(snapshots, snapshot) ==
    LET i == FirstMatch({j \in 1..Len(snapshots) :
                            snapshots[j].user_id = snapshot.user_id})
    IN  IF i = 0 THEN Append(snapshots, snapshot)
        ELSE [snapshots EXCEPT ![i] = snapshot]

\* db.live_stress_snapshots.find_one({"user_id": user_id}, {"_id": 0})
FindSnapshot(snapshots, user_id) ==
    LET i == FirstMatch({j \in 1..Len(snapshots) :
                            snapshots[j].user_id = user_id})
    IN  IF i = 0 THEN NoSnapshot ELSE snapshots[i]

\* a frame of a stream of the owner has been analysed
SaveArrive ==
    /\ Len(procs) < MaxSaves
    /\ \E u \in Users, c \in SnapshotTimes, sc \in {LowStress, HighStress} :
          procs' = Append(procs,
              Request("save", "update_one", 0, c, u, 0,
                      Snapshot(u, None, c, sc[1], sc[2]), 0))
    /\ UNCHANGED <<focus_sessions, focus_samples, break_prompts,
                   focus_reports, pomodoro_sessions, break_preferences,
                   memory_db, reachable,
                   live_stress_snapshots, live_analysis_cache>>

\* _save_live_analysis: the upsert of the snapshot
SaveUpsert ==
    \E p \in 1..Len(procs) :
        /\ At(p, "save", "update_one")
        /\ live_stress_snapshots' =
               UpsertSnapshot(live_stress_snapshots, procs[p].doc)
        /\ procs' = [procs EXCEPT ![p].pc = "cache"]
        /\ UNCHANGED <<focus_sessions, focus_samples, break_prompts,
                       focus_reports, pomodoro_sessions, break_preferences,
                       memory_db, reachable, live_analysis_cache>>

\* _save_live_analysis: the cache entry, written under _live_analysis_lock
SaveCache ==
    \E p \in 1..Len(procs) :
        /\ At(p, "save", "cache")
        /\ live_analysis_cache' =
               [live_analysis_cache EXCEPT ![procs[p].arg] = procs[p].doc]
        /\ procs' = [procs EXCEPT ![p].pc = "done"]
        /\ UNCHANGED <<focus_sessions, focus_samples, break_prompts,
                       focus_reports, pomodoro_sessions, break_preferences,
                       memory_db, reachable, live_stress_snapshots>>

\* GET /latest arrives; without user_id it is answered 400
LatestArrive ==
    /\ Len(procs) < MaxSaves
    /\ \E u \in Users \cup {""} :
          procs' = Append(procs,
              IF u = "" THEN Request("latest", "done", 0, 0, u, 0, <<>>, 400)
              ELSE Request("latest", "cache", 0, 0, u, 0, <<>>, 0))
    /\ UNCHANGED <<focus_sessions, focus_samples, break_prompts,
                   focus_reports, pomodoro_sessions, break_preferences,
                   memory_db, reachable,
                   live_stress_snapshots, live_analysis_cache>>

\* get_latest_video_snapshot: the cache entry, read under
\* _live_analysis_lock; a cached snapshot is the answer
LatestCache ==
    \E p \in 1..Len(procs) :
        /\ At(p, "latest", "cache")
        /\ LET cached == live_analysis_cache[procs[p].arg]
           IN  procs' = IF cached # NoSnapshot
                        THEN [procs EXCEPT ![p].pc = "done",
                                           ![p].doc = cached,
                                           ![p].code = 200]
                        ELSE [procs EXCEPT ![p].pc = "find_one"]
        /\ UNCHANGED <<focus_sessions, focus_samples, break_prompts,
                       focus_reports, pomodoro_sessions, break_preferences,
                       memory_db, reachable,
                       live_stress_snapshots, live_analysis_cache>>

\* get_latest_video_snapshot: nothing cached, the store is asked
LatestFind ==
    \E p \in 1..Len(procs) :
        /\ At(p, "latest", "find_one")
        /\ procs' = [procs EXCEPT
               ![p].pc = "done",
               ![p].doc = FindSnapshot(live_stress_snapshots, procs[p].arg),
               ![p].code = 200]
        /\ UNCHANGED <<focus_sessions, focus_samples, break_prompts,
                       focus_reports, pomodoro_sessions, break_preferences,
                       memory_db, reachable,
                       live_stress_snapshots, live_analysis_cache>>

NextSnapshot ==
    \/ SaveArrive
    \/ SaveUpsert
    \/ SaveCache
    \/ LatestArrive
    \/ LatestCache
    \/ LatestFind

SpecSnapshot == Init /\ [][NextSnapshot]_vars

---------------------------------------------------------------------------
(* Vocabulary of the properties.  These definitions restate the conditions *)
(* in terms of the stored documents only; they use none of the handlers'   *)
(* own operators.                                                          *)

\* the focus session document with identifier sid
SessionOf(sid) ==
    CHOOSE d \in {focus_sessions[i] : i \in 1..Len(focus_sessions)} :
        d.session_id = sid

\* the stored samples of session sid, in insertion order
SamplesOf(samples, sid) == SelectSeq(samples, LAMBDA d : d.session_id = sid)

\* positions of the prompts of (owner, session), resolved or not
PromptsOf(prompts, user_id, sid) ==
    {i \in 1..Len(prompts) :
        prompts[i].user_id = user_id /\ prompts[i].session_id = sid}

\* positions of the unresolved HIGH_STRESS_BREAK prompts of (owner, session)
UnresolvedOf(prompts, user_id, sid) ==
    {i \in PromptsOf(prompts, user_id, sid) :
        prompts[i].type = "HIGH_STRESS_BREAK" /\ prompts[i].resolved_at = None}

\* condition (b): among the samples of sid with stress >= 0.75 captured at
\* or after c - 10 min there is one, and the earliest of them is at least
\* 10 min older than c
EarliestInWindowIsOldEnough(samples, sid, c) ==
    LET inWindow == {i \in 1..Len(samples) :
                        /\ samples[i].session_id = sid
                        /\ samples[i].stress_score >= 7500
                        /\ samples[i].captured_at >= c - 600}
    IN  /\ inWindow # {}
        /\ \A i \in inWindow :
              (\A j \in inWindow :
                   samples[i].captured_at <= samples[j].captured_at)
              => c - samples[i].captured_at >= 600

\* a step that stores one more sample, i.e. a successful ingestion
Ingested == Len(focus_samples') = Len(focus_samples) + 1

\* the sample the step stored
Newest == focus_samples'[Len(focus_samples')]

\* the step appended exactly one prompt, unresolved, for owner and
\* session, created at c
RaisedPrompt(user_id, sid, c) ==
    /\ Len(break_prompts') = Len(break_prompts) + 1
    /\ SubSeq(break_prompts', 1, Len(break_prompts)) = break_prompts
    /\ LET p == break_prompts'[Len(break_prompts')]
       IN  /\ p.user_id = user_id
           /\ p.session_id = sid
           /\ p.type = "HIGH_STRESS_BREAK"
           /\ p.created_at = c
           /\ p.resolved_at = None
           /\ \A i \in 1..Len(break_prompts) :
                 break_prompts[i].prompt_id # p.prompt_id

---------------------------------------------------------------------------
(* C1 *)

\* C1: on a prompts-allowed session with no prior prompt, ingesting stress
\* 0.9 at T leaves zero unresolved prompts, and then ingesting stress 0.9
\* at T + 10:01 leaves exactly one unresolved HIGH_STRESS_BREAK prompt.
C1_SecondSampleAfterTenMinutesRaisesPrompt ==
    [][Ingested =>
        LET new     == Newest
            sid     == new.session_id
            session == SessionOf(sid)
            before  == SamplesOf(focus_samples, sid)
            pending == UnresolvedOf(break_prompts', session.user_id, sid)
        IN  (/\ session.allow_prompted_breaks
             /\ new.stress_score = 9000
             /\ PromptsOf(break_prompts, session.user_id, sid) = {})
            => /\ before = <<>> => pending = {}
               /\ (/\ Len(before) = 1
                   /\ before[1].stress_score = 9000
                   /\ new.captured_at = before[1].captured_at + 601)
                  => Cardinality(pending) = 1
    ]_vars

---------------------------------------------------------------------------
(* C2 *)

\* C2: a successful ingestion on session s with capture time c appends a
\* new unresolved prompt iff (a) s allows prompts, (b) the earliest
\* high-stress sample of s captured at or after c - 10 min is at least
\* 10 min older than c, and (c) (owner, s) has no unresolved
\* HIGH_STRESS_BREAK prompt; otherwise the prompts are left as they were.
C2_PromptRaisedIffAllThree ==
    [][Ingested =>
        LET new     == Newest
            sid     == new.session_id
            c       == new.captured_at
            session == SessionOf(sid)
        IN  IF /\ session.allow_prompted_breaks
               /\ EarliestInWindowIsOldEnough(focus_samples', sid, c)
               /\ UnresolvedOf(break_prompts, session.user_id, sid) = {}
            THEN RaisedPrompt(session.user_id, sid, c)
            ELSE break_prompts' = break_prompts
    ]_vars

\* a prompt stands that an ingestion raised: its creation time is the
\* capture time of a sample of its session, 10 min after a high one
C2_Witness ==
    \E i \in 1..Len(break_prompts) :
        \E j, k \in 1..Len(focus_samples) :
            /\ focus_samples[j].session_id = break_prompts[i].session_id
            /\ focus_samples[k].session_id = break_prompts[i].session_id
            /\ focus_samples[k].captured_at = break_prompts[i].created_at
            /\ focus_samples[j].stress_score >= 7500
            /\ focus_samples[k].captured_at - focus_samples[j].captured_at = 600

---------------------------------------------------------------------------
(* C3 *)

\* C3: after any sequence of whole operations, every (owner, session) pair
\* has at most one HIGH_STRESS_BREAK prompt whose resolution time is unset.
C3_AtMostOneUnresolvedPerSession ==
    \A i \in 1..Len(focus_sessions) :
        Cardinality(UnresolvedOf(break_prompts, focus_sessions[i].user_id,
                                 focus_sessions[i].session_id)) <= 1

\* a session with an unresolved prompt and none resolved, although two of
\* its ingestions met condition (b) on the samples stored by then: the
\* later one found the prompt pending and added nothing
C3_Witness ==
    \E i \in 1..Len(focus_sessions) :
        LET sid  == focus_sessions[i].session_id
            user == focus_sessions[i].user_id
        IN  /\ Cardinality(PromptsOf(break_prompts, user, sid)) = 1
            /\ Cardinality(UnresolvedOf(break_prompts, user, sid)) = 1
            /\ \E j, k \in 1..Len(focus_samples) :
                  /\ j < k
                  /\ focus_samples[j].session_id = sid
                  /\ focus_samples[k].session_id = sid
                  /\ EarliestInWindowIsOldEnough(SubSeq(focus_samples, 1, j),
                         sid, focus_samples[j].captured_at)
                  /\ EarliestInWindowIsOldEnough(SubSeq(focus_samples, 1, k),
                         sid, focus_samples[k].captured_at)

---------------------------------------------------------------------------
(* C4 *)

\* C4: however the store calls of concurrent ingestions on one
\* prompts-allowed session interleave, no two HIGH_STRESS_BREAK prompts of
\* the same owner and session are unresolved at once.
C4_NoTwoUnresolvedUnderInterleaving ==
    \A i, j \in 1..Len(break_prompts) :
        (/\ i < j
         /\ break_prompts[i].user_id = break_prompts[j].user_id
         /\ break_prompts[i].session_id = break_prompts[j].session_id
         /\ break_prompts[i].type = "HIGH_STRESS_BREAK"
         /\ break_prompts[j].type = "HIGH_STRESS_BREAK"
         /\ break_prompts[i].resolved_at = None)
        => break_prompts[j].resolved_at # None

---------------------------------------------------------------------------
(* C5 *)

\* C5: once every prompt of a session has been acknowledged, an ingestion
\* that meets condition (b) again raises a new unresolved prompt.
C5_FiresAgainAfterAcknowledgement ==
    [][Ingested =>
        LET new     == Newest
            sid     == new.session_id
            session == SessionOf(sid)
            earlier == PromptsOf(break_prompts, session.user_id, sid)
        IN  (/\ earlier # {}
             /\ \A i \in earlier : break_prompts[i].resolved_at # None
             /\ EarliestInWindowIsOldEnough(focus_samples', sid,
                                            new.captured_at))
            => /\ RaisedPrompt(session.user_id, sid, new.captured_at)
               /\ Cardinality(UnresolvedOf(break_prompts',
                                           session.user_id, sid)) = 1
    ]_vars

\* a session holds a resolved prompt and a later, unresolved one, and the
\* later one was raised by two samples stored after the first was raised:
\* samples a < b < c < d, b 10 min after a raising the first prompt, d
\* 10 min after c raising the second
C5_Witness ==
    \E i, j \in 1..Len(break_prompts) :
        /\ i < j
        /\ break_prompts[i].session_id = break_prompts[j].session_id
        /\ break_prompts[i].user_id = break_prompts[j].user_id
        /\ break_prompts[i].resolved_at # None
        /\ break_prompts[j].resolved_at = None
        /\ \E a, b, c, d \in 1..Len(focus_samples) :
              /\ a < b /\ b < c /\ c < d
              /\ \A k \in {a, b, c, d} :
                    focus_samples[k].session_id = break_prompts[i].session_id
              /\ focus_samples[b].captured_at = break_prompts[i].created_at
              /\ focus_samples[b].captured_at - focus_samples[a].captured_at = 600
              /\ focus_samples[d].captured_at = break_prompts[j].created_at
              /\ focus_samples[d].captured_at - focus_samples[c].captured_at = 600

---------------------------------------------------------------------------
(* C6 *)

\* C6: a session whose prompts-allowed flag is false never gets a prompt,
\* whatever samples were ingested into it.
C6_NoPromptWithoutPermission ==
    \A i \in 1..Len(focus_sessions) :
        ~focus_sessions[i].allow_prompted_breaks
        => \A j \in 1..Len(break_prompts) :
              break_prompts[j].session_id # focus_sessions[i].session_id

\* a session without permission whose last ingestion met condition (b)
C6_Witness ==
    \E i \in 1..Len(focus_sessions) :
        /\ ~focus_sessions[i].allow_prompted_breaks
        /\ \E k \in 1..Len(focus_samples) :
              /\ focus_samples[k].session_id = focus_sessions[i].session_id
              /\ EarliestInWindowIsOldEnough(SubSeq(focus_samples, 1, k),
                     focus_sessions[i].session_id,
                     focus_samples[k].captured_at)

---------------------------------------------------------------------------
(* C7 *)

\* what an acknowledgement request with a prompt id does in this state
AckResult(pid, a) == acknowledge_break_prompt(DB, pid, a[1], a[2])

\* C7: an acknowledgement naming a prompt id succeeds exactly when an
\* unresolved prompt has that id, and then sets that prompt's resolution
\* time and acknowledgement flag and nothing else; otherwise it answers
\* 404 and leaves the database, resolved prompts included, as it was.
C7_AcknowledgeOnlyUnresolved ==
    \A pid \in 1..(MaxSamples + 1), a \in AckInputs :
        LET pending == {i \in 1..Len(break_prompts) :
                           /\ break_prompts[i].prompt_id = pid
                           /\ break_prompts[i].resolved_at = None}
            r == AckResult(pid, a)
        IN  IF pending # {}
            THEN /\ r.code = 200
                 /\ \E i \in pending :
                       /\ r.db.break_prompts[i].resolved_at = a[1]
                       /\ r.db.break_prompts[i].resolved_at # None
                       /\ r.db.break_prompts[i].acknowledged =
                              (IF a[2] THEN "true" ELSE "false")
                       /\ r.db = [DB EXCEPT !.break_prompts =
                              [@ EXCEPT ![i] = r.db.break_prompts[i]]]
                       /\ \A f \in DOMAIN break_prompts[i] \
                                     {"resolved_at", "acknowledged"} :
                              r.db.break_prompts[i][f] = break_prompts[i][f]
            ELSE r.code = 404 /\ r.db = DB

\* a prompt has been resolved by one acknowledgement and the other
\* acknowledgement input names it again
C7_Witness ==
    \E i \in 1..Len(break_prompts) :
        /\ break_prompts[i].resolved_at = 700
        /\ break_prompts[i].acknowledged = "true"
        /\ AckResult(break_prompts[i].prompt_id, <<800, FALSE>>).code = 404

---------------------------------------------------------------------------
(* C8 *)

\* the answered requests of handler op on target that got a 200
Succeeded(op, target) ==
    {p \in DOMAIN procs :
        /\ procs[p].op = op
        /\ procs[p].target = target
        /\ procs[p].code = 200}

\* C8: of the acknowledgements of one prompt that run at once at most one
\* succeeds, and the prompt is resolved exactly when one has succeeded and
\* then carries that request's resolution time and flag; likewise at most
\* one stop of one pomodoro session succeeds, and the session is cancelled
\* exactly when one has and then carries that request's end time.  Every
\* other request got 404 and has left no trace.
C8_ExactlyOneDuplicateSucceeds ==
    /\ \A i \in 1..Len(break_prompts) :
          LET won == Succeeded("ack", break_prompts[i].prompt_id)
          IN  /\ Cardinality(won) <= 1
              /\ (break_prompts[i].resolved_at # None) <=> (won # {})
              /\ \A p \in won :
                    /\ break_prompts[i].resolved_at = procs[p].t
                    /\ break_prompts[i].acknowledged =
                           (IF procs[p].arg THEN "true" ELSE "false")
    /\ \A i \in 1..Len(pomodoro_sessions) :
          LET won == Succeeded("stop", pomodoro_sessions[i].session_id)
          IN  /\ Cardinality(won) <= 1
              /\ (pomodoro_sessions[i].status = "cancelled") <=> (won # {})
              /\ \A p \in won : pomodoro_sessions[i].ended_at = procs[p].t

---------------------------------------------------------------------------
(* C9 *)

\* a step of any handler other than the acknowledgement
OtherThanAcknowledge ==
    \/ StartFocus(MaxSessions, {"u1"}, {"true", "none"})
    \/ Ingest(MaxSamples, 1..MaxSessions, {HighStress})
    \/ EndFocus(1..MaxSessions, {900})
    \/ SetPreference({"u1"})
    \/ Poll({"u1"})
    \/ StartPomodoro(MaxPomodoros, {"u1", ""}, PomodoroParams)
    \/ PomodoroStatus(Ids(MaxPomodoros), StatusTimes)
    \/ StopPomodoro(Ids(MaxPomodoros), StopTimes)

\* C9: no step of a handler other than the acknowledgement (ingestion,
\* poll, session start and end, preference, pomodoro start, status and
\* stop) turns a prompt's resolution time from unset to set; and in every
\* step each stored prompt stays stored and, once resolved, stays resolved.
C9_OnlyAcknowledgementResolves ==
    [][/\ Len(break_prompts') >= Len(break_prompts)
       /\ \A i \in 1..Len(break_prompts) :
             /\ break_prompts'[i].prompt_id = break_prompts[i].prompt_id
             /\ break_prompts[i].resolved_at # None
                => break_prompts'[i].resolved_at # None
             /\ (OtherThanAcknowledge /\ break_prompts[i].resolved_at = None)
                => break_prompts'[i].resolved_at = None
    ]_vars

\* a session was ended and a pomodoro session read to completion while
\* one prompt of the session was resolved and a later one was pending, and
\* the pending one is pending still
C9_Witness ==
    /\ \E i, j \in 1..Len(break_prompts) :
          /\ i < j
          /\ break_prompts[i].resolved_at # None
          /\ break_prompts[j].resolved_at = None
          /\ SessionOf(break_prompts[j].session_id).status = "completed"
    /\ \E i \in 1..Len(pomodoro_sessions) :
          pomodoro_sessions[i].status = "completed"

---------------------------------------------------------------------------
(* C10 *)

\* C10: a poll for an owner shows an unresolved prompt of that owner with
\* the smallest creation time among all the owner's sessions, and shows
\* none exactly when the owner has no unresolved prompt; it never shows a
\* resolved prompt or another owner's.
C10_PollShowsOldestUnresolved ==
    \A u \in Users :
        LET mine == {i \in 1..Len(break_prompts) :
                        /\ break_prompts[i].user_id = u
                        /\ break_prompts[i].resolved_at = None}
            r == poll_break_prompt(DB, u)
        IN  /\ r.code = 200
            /\ (r.out = 0) <=> (mine = {})
            /\ mine # {} =>
                  \E i \in mine :
                      /\ break_prompts[i].prompt_id = r.out
                      /\ \A j \in mine : break_prompts[i].created_at
                                             <= break_prompts[j].created_at
            /\ \A i \in 1..Len(break_prompts) :
                  break_prompts[i].prompt_id = r.out
                  => /\ break_prompts[i].user_id = u
                     /\ break_prompts[i].resolved_at = None

\* an owner has unresolved prompts in two sessions, the one stored later
\* being the older, and the poll shows that one
C10_Witness ==
    \E i, j \in 1..Len(break_prompts) :
        /\ i < j
        /\ break_prompts[i].user_id = break_prompts[j].user_id
        /\ break_prompts[i].session_id # break_prompts[j].session_id
        /\ break_prompts[i].resolved_at = None
        /\ break_prompts[j].resolved_at = None
        /\ break_prompts[j].created_at < break_prompts[i].created_at
        /\ poll_break_prompt(DB, break_prompts[i].user_id).out
               = break_prompts[j].prompt_id

---------------------------------------------------------------------------
(* C11 *)

\* C11: a poll, for any owner or with none given, leaves the database
\* (sessions, samples, prompts, reports) as it found it, and a second poll
\* right after it shows the same prompt.
C11_PollIsReadOnly ==
    \A u \in Users \cup {""} :
        LET first  == poll_break_prompt(DB, u)
            second == poll_break_prompt(first.db, u)
        IN  /\ first.db = DB
            /\ second.db = DB
            /\ second.code = first.code
            /\ second.out = first.out

\* an owner is shown a pending prompt while samples and a report are stored
C11_Witness ==
    /\ focus_samples # <<>>
    /\ focus_reports # <<>>
    /\ \E u \in Users : poll_break_prompt(DB, u).out # 0

---------------------------------------------------------------------------
(* C12 *)

\* what an ingestion request naming session sid does in this state
IngestResult(sid, c, sc) == ingest_focus_sample(DB, sid, c, sc[1], sc[2])

\* C12: an ingestion naming a session id that no stored session has is
\* answered 404, and one naming a session whose status is not active is
\* answered 409, whatever its scores; either way the database, samples and
\* prompts included, is left as it was.
C12_UnknownOrInactiveSessionRejected ==
    \A sid \in 1..(MaxSessions + 1), c \in CaptureTimes,
       sc \in ValidScores \cup InvalidScores :
        LET named == {i \in 1..Len(focus_sessions) :
                         focus_sessions[i].session_id = sid}
            r == IngestResult(sid, c, sc)
        IN  /\ named = {} => r.code = 404 /\ r.db = DB
            /\ \A i \in named :
                  focus_sessions[i].status # "active"
                  => r.code = 409 /\ r.db = DB

\* a completed session that holds a high-stress sample refuses the sample
\* that would raise a prompt, and an id never issued is not found
C12_Witness ==
    /\ \E i \in 1..Len(focus_sessions) :
          /\ focus_sessions[i].status = "completed"
          /\ focus_sessions[i].allow_prompted_breaks
          /\ \E k \in 1..Len(focus_samples) :
                /\ focus_samples[k].captured_at = 0
                /\ focus_samples[k].stress_score = 9000
          /\ break_prompts = <<>>
          /\ IngestResult(focus_sessions[i].session_id, 600, HighStress).code = 409
    /\ IngestResult(MaxSessions + 1, 600, HighStress).code = 404

---------------------------------------------------------------------------
(* C13 *)

\* the ingestion of score pair sc captured at c into session sid is
\* answered 400 and leaves the database as it was
RejectedUnchanged(sid, c, sc) ==
    LET r == ingest_focus_sample(DB, sid, c, sc[1], sc[2])
    IN  r.code = 400 /\ r.db = DB

\* C13: on an active session an ingestion whose focus or stress score is no
\* number or lies outside [0, 1] is answered 400 and leaves the database as
\* it was (no sample stored, no prompt raised); and every stored sample has
\* both scores within [0, 1].
C13_InvalidScoresRejected ==
    /\ \A i \in 1..Len(focus_sessions) :
          focus_sessions[i].status = "active"
          => \A c \in CaptureTimes, sc \in InvalidScores :
                RejectedUnchanged(focus_sessions[i].session_id, c, sc)
    /\ \A k \in 1..Len(focus_samples) :
          /\ 0 <= focus_samples[k].focus_score
          /\ focus_samples[k].focus_score <= 10000
          /\ 0 <= focus_samples[k].stress_score
          /\ focus_samples[k].stress_score <= 10000

\* an active session with prompts allowed holds a high-stress sample, and
\* the sample 10 min later that is refused has a stress above 1: accepted,
\* it would have raised a prompt
C13_Witness ==
    \E i \in 1..Len(focus_sessions) :
        /\ focus_sessions[i].status = "active"
        /\ focus_sessions[i].allow_prompted_breaks
        /\ break_prompts = <<>>
        /\ \E k \in 1..Len(focus_samples) :
              /\ focus_samples[k].captured_at = 0
              /\ focus_samples[k].stress_score = 9000
        /\ RejectedUnchanged(focus_sessions[i].session_id, 600, <<5000, 10001>>)

---------------------------------------------------------------------------
(* C14 *)

\* C14: however ingestions and session ends on one session interleave, at
\* the step that stores a sample the sample's session has status active.
C14_SampleStoredOnlyWhileActive ==
    [][Ingested => SessionOf(Newest.session_id).status = "active"]_vars

---------------------------------------------------------------------------
(* C15 *)

\* the stored report record of session sid in the report collection
ReportOf(reports, sid) ==
    CHOOSE d \in {reports[i] : i \in 1..Len(reports)} : d.session_id = sid

\* the sessions that have been ended: those with a stored report record
Reported == {focus_reports[i].session_id : i \in 1..Len(focus_reports)}

\* C15: with requests handled one after the other, a session that has
\* been ended gets, when ended again in any later state, the report content
\* its earlier end returned: the report the handler returns is the one it
\* stores, so the record a further end would store carries the content of
\* the record stored already.
C15_SecondEndSameReport ==
    \A sid \in Reported, t \in EndTimes :
        LET again == end_focus_session(DB, sid, t)
        IN  /\ again.code = 200
            /\ ReportOf(again.db.focus_reports, sid).report
                   = ReportOf(focus_reports, sid).report

\* a session was ended with a report of two samples or more; an ingestion
\* into it is refused now, and the other session is active and has taken
\* a sample
C15_Witness ==
    \E i, j \in 1..Len(focus_sessions) :
        /\ focus_sessions[i].status = "completed"
        /\ ReportOf(focus_reports, focus_sessions[i].session_id)
               .report.sample_count >= 2
        /\ IngestResult(focus_sessions[i].session_id, 600, HighStress).code = 409
        /\ focus_sessions[j].status = "active"
        /\ \E k \in 1..Len(focus_samples) :
              focus_samples[k].session_id = focus_sessions[j].session_id

---------------------------------------------------------------------------
(* C16 *)

\* C16: ending a session that is completed already, with any end time,
\* leaves the stored session (status, end time) and the stored report
\* record as the first end left them.
C16_SecondEndChangesNothing ==
    \A i \in 1..Len(focus_sessions), t \in EndTimes :
        focus_sessions[i].status = "completed"
        => LET sid   == focus_sessions[i].session_id
               again == end_focus_session(DB, sid, t)
           IN  /\ again.db.focus_sessions[i].status = focus_sessions[i].status
               /\ again.db.focus_sessions[i].ended_at = focus_sessions[i].ended_at
               /\ ReportOf(again.db.focus_reports, sid)
                      = ReportOf(focus_reports, sid)

---------------------------------------------------------------------------
(* C17 *)

\* C17: an end request naming an id no session has is answered 404 and
\* leaves the database as it was; one naming a stored session is answered
\* 200 and leaves that session completed with the request's end time, and
\* a report record of the session whose content is build_report of all the
\* session's samples, the series holding every sample once in the order of
\* capture times.
C17_EndStoresReportOfAllSamples ==
    \A sid \in 1..(MaxSessions + 1), t \in EndTimes :
        LET named == {i \in 1..Len(focus_sessions) :
                         focus_sessions[i].session_id = sid}
            mine  == {k \in 1..Len(focus_samples) :
                         focus_samples[k].session_id = sid}
            r     == end_focus_session(DB, sid, t)
        IN  IF named = {} THEN r.code = 404 /\ r.db = DB
            ELSE
              LET stored == ReportOf(r.db.focus_reports, sid)
                  series == stored.report.graph_points
              IN  /\ r.code = 200
                  /\ \A i \in named :
                        /\ r.db.focus_sessions[i].status = "completed"
                        /\ r.db.focus_sessions[i].ended_at = t
                        /\ r.db.focus_sessions[i].ended_at # None
                  /\ Cardinality({i \in 1..Len(r.db.focus_reports) :
                         r.db.focus_reports[i].session_id = sid}) = 1
                  /\ stored.report =
                         build_report(SessionSamples(focus_samples, sid))
                  /\ stored.report.sample_count = Cardinality(mine)
                  /\ Len(series) = Cardinality(mine)
                  /\ \A a, b \in 1..Len(series) :
                        a < b => series[a].timestamp <= series[b].timestamp
                  /\ \A c \in CaptureTimes :
                        Cardinality({a \in 1..Len(series) :
                                        series[a].timestamp = c})
                        = Cardinality({k \in mine :
                                        focus_samples[k].captured_at = c})
                  /\ r.db.focus_samples = focus_samples
                  /\ r.db.break_prompts = break_prompts

\* a completed session whose report counts two samples or more that were
\* stored against the order of their capture times
C17_Witness ==
    \E i \in 1..Len(focus_sessions) :
        /\ focus_sessions[i].status = "completed"
        /\ ReportOf(focus_reports, focus_sessions[i].session_id)
               .report.sample_count >= 2
        /\ \E j, k \in 1..Len(focus_samples) :
              /\ j < k
              /\ focus_samples[j].session_id = focus_sessions[i].session_id
              /\ focus_samples[k].session_id = focus_sessions[i].session_id
              /\ focus_samples[j].captured_at > focus_samples[k].captured_at

---------------------------------------------------------------------------
(* C18 *)

\* the owner has a stored preference and it enables stress prompts
PreferenceEnabled(user_id) ==
    \E j \in 1..Len(break_preferences) :
        /\ break_preferences[j].user_id = user_id
        /\ break_preferences[j].stress_prompt_enabled

\* the flag a start request of the owner with allow input a is to get
ExpectedAllow(user_id, a) ==
    IF a = "none" THEN PreferenceEnabled(user_id) ELSE a = "true"

\* C18: a start request without owner is answered 400 and stores nothing;
\* any other is answered 201 and appends one session, active, of that
\* owner, whose prompts-allowed flag is the value given or, when none is
\* given, the owner's stored preference at that moment (false without
\* one), and changes nothing else.  No step, a change of the preference
\* included, changes the flag of a session already stored.
C18_StartResolvesAllowFlag ==
    [][/\ \A a \in AllowInputs :
             LET r == start_focus_session(DB, "", a)
             IN  r.code = 400 /\ r.db = DB
       /\ \A u \in Users, a \in AllowInputs :
             LET r   == start_focus_session(DB, u, a)
                 new == r.db.focus_sessions[Len(r.db.focus_sessions)]
             IN  /\ r.code = 201
                 /\ Len(r.db.focus_sessions) = Len(focus_sessions) + 1
                 /\ SubSeq(r.db.focus_sessions, 1, Len(focus_sessions))
                        = focus_sessions
                 /\ new.user_id = u
                 /\ new.status = "active"
                 /\ new.ended_at = None
                 /\ new.allow_prompted_breaks = ExpectedAllow(u, a)
                 /\ \A i \in 1..Len(focus_sessions) :
                        focus_sessions[i].session_id # new.session_id
                 /\ r.db = [DB EXCEPT !.focus_sessions = r.db.focus_sessions]
       /\ \A i \in 1..Len(focus_sessions) :
             focus_sessions'[i].allow_prompted_breaks
                 = focus_sessions[i].allow_prompted_breaks
    ]_vars

\* a stored session allows prompts although its owner's preference, set
\* since, disables them, and a start of that owner without a value given
\* would now get a session that does not allow them
C18_Witness ==
    \E i \in 1..Len(focus_sessions) :
        /\ focus_sessions[i].allow_prompted_breaks
        /\ focus_sessions[i].user_id \in PrefUsers
        /\ \E j \in 1..Len(break_preferences) :
              /\ break_preferences[j].user_id = focus_sessions[i].user_id
              /\ ~break_preferences[j].stress_prompt_enabled
        /\ ~start_focus_session(DB, focus_sessions[i].user_id, "none")
               .db.focus_sessions[i + 1].allow_prompted_breaks

---------------------------------------------------------------------------
(* C19 *)

\* what a pomodoro start request of owner u1 with parameters p does
PomodoroStartResult(p) == start_pomodoro(DB, "u1", p[1], p[2], p[3], 0)

\* C19: a pomodoro start whose focus minutes, break minutes or cycles is
\* zero or negative is answered 400 and stores nothing; every stored
\* pomodoro session has focus minutes > 0, break minutes > 0, cycles >= 1.
C19_NonPositivePomodoroRejected ==
    /\ \A p \in PomodoroParams :
          (p[1] <= 0 \/ p[2] <= 0 \/ p[3] <= 0)
          => PomodoroStartResult(p).code = 400 /\ PomodoroStartResult(p).db = DB
    /\ \A i \in 1..Len(pomodoro_sessions) :
          /\ pomodoro_sessions[i].focus_minutes > 0
          /\ pomodoro_sessions[i].break_minutes > 0
          /\ pomodoro_sessions[i].cycles >= 1

\* a pomodoro session is stored, and a start with zero cycles is refused
C19_Witness ==
    /\ pomodoro_sessions # <<>>
    /\ PomodoroStartResult(<<1, 1, 0>>).code = 400
    /\ PomodoroStartResult(<<1, 1, 1>>).code = 201

---------------------------------------------------------------------------
(* C20 *)

\* what a stop request naming pomodoro session sid does in this state
StopResult(sid, t) == stop_pomodoro(DB, sid, t)

\* C20: a stop naming an active pomodoro session is answered 200 and sets
\* that session's status to cancelled and its end time to the request's,
\* and changes nothing else; a stop naming an id no session has, or a
\* session that is completed or cancelled, is answered 404 and leaves the
\* database, that session's status and end time included, as it was.
C20_StopOnlyActive ==
    \A sid \in 1..(MaxPomodoros + 1), t \in StopTimes \cup ConcStopTimes :
        LET active == {i \in 1..Len(pomodoro_sessions) :
                          /\ pomodoro_sessions[i].session_id = sid
                          /\ pomodoro_sessions[i].status = "active"}
            r == StopResult(sid, t)
        IN  IF active # {}
            THEN /\ r.code = 200
                 /\ \E i \in active :
                       /\ r.db.pomodoro_sessions[i].status = "cancelled"
                       /\ r.db.pomodoro_sessions[i].ended_at = t
                       /\ r.db = [DB EXCEPT !.pomodoro_sessions =
                              [@ EXCEPT ![i] = r.db.pomodoro_sessions[i]]]
                       /\ \A f \in DOMAIN pomodoro_sessions[i] \
                                     {"status", "ended_at"} :
                              r.db.pomodoro_sessions[i][f]
                                  = pomodoro_sessions[i][f]
            ELSE r.code = 404 /\ r.db = DB

\* a pomodoro session was stopped at 45 and a further stop of it, with
\* another end time, is not found
C20_Witness ==
    \E i \in 1..Len(pomodoro_sessions) :
        /\ pomodoro_sessions[i].status = "cancelled"
        /\ pomodoro_sessions[i].ended_at = 45
        /\ StopResult(pomodoro_sessions[i].session_id, 50).code = 404

---------------------------------------------------------------------------
(* C21 *)

\* the timer of the pomodoro session has run out at the instant now
RunOut(session, now) ==
    now - session.started_at >=
        (session.focus_minutes * 60 + session.break_minutes * 60)
            * session.cycles - session.break_minutes * 60

---------------------------------------------------------------------------
(* C22 *)

\* C22: a pomodoro session stored as cancelled or completed keeps its status
\* and its end time through every stop and every status read.
C22_StatusOnlyLeavesActive ==
    \A i \in 1..Len(pomodoro_sessions) :
        LET session == pomodoro_sessions[i]
        IN  session.status # "active"
            => /\ \A t \in StopTimes :
                    stop_pomodoro(DB, session.session_id, t)
                        .db.pomodoro_sessions[i] = session
               /\ \A now \in StatusTimes :
                    get_pomodoro_status(DB, session.session_id, now)
                        .db.pomodoro_sessions[i] = session

---------------------------------------------------------------------------
(* C23 *)

\* the reference result of the phase computation
ComputePhase(focusMinutes, breakMinutes, cycles, start, now) ==
    LET focusSec == 60 * focusMinutes
        breakSec == 60 * breakMinutes
        cycleSec == focusSec + breakSec
        totalSec == cycleSec * cycles - breakSec
        elapsed  == IF now - start > 0 THEN now - start ELSE 0
        inCycle  == elapsed % cycleSec
        index    == IF (elapsed \div cycleSec) + 1 < cycles
                    THEN (elapsed \div cycleSec) + 1 ELSE cycles
    IN  IF elapsed >= totalSec THEN <<"completed", cycles, 0>>
        ELSE IF inCycle < focusSec THEN <<"focus", index, focusSec - inCycle>>
        ELSE <<"break", index, cycleSec - inCycle>>

\* the reading of a stored timer at the instant now
Reading(session, now) ==
    LET r == status_from_session(session, now)
    IN  <<r.phase, r.cycle_index, r.seconds_remaining>>

\* C23: for every stored timer and every whole second now up to the horizon,
\* the phase computation returns the reference result; for 25/5/4 started
\* at T it is focus, cycle 1, 1 s left at T+24:59, break with 300 s left at
\* T+25:00, completed at T+115:00, and before T focus, cycle 1, 1500 s.
C23_PhaseEqualsReference ==
    \A i \in 1..Len(pomodoro_sessions) :
        LET session == pomodoro_sessions[i]
            T == session.started_at
        IN  /\ \A now \in 0..PhaseHorizon :
                  Reading(session, now) =
                      ComputePhase(session.focus_minutes, session.break_minutes,
                                   session.cycles, T, now)
            /\ (<<session.focus_minutes, session.break_minutes, session.cycles>>
                    = <<25, 5, 4>>)
               => /\ Reading(session, T + 1499) = <<"focus", 1, 1>>
                  /\ Reading(session, T + 1500)[1] = "break"
                  /\ Reading(session, T + 1500)[3] = 300
                  /\ Reading(session, T + 6900)[1] = "completed"
                  /\ \A now \in 0..T : Reading(session, now) = <<"focus", 1, 1500>>

\* a 25/5/4 timer started at 100, read before its start and in its every
\* phase, and completed by the read at 7000
C23_Witness ==
    \E i \in 1..Len(pomodoro_sessions) :
        LET session == pomodoro_sessions[i]
        IN  /\ <<session.focus_minutes, session.break_minutes, session.cycles>>
                  = <<25, 5, 4>>
            /\ session.started_at = 100
            /\ Reading(session, 50) = <<"focus", 1, 1500>>
            /\ Reading(session, 1599) = <<"focus", 1, 1>>
            /\ Reading(session, 1600) = <<"break", 1, 300>>
            /\ session.status = "completed"
            /\ session.ended_at = 7000

---------------------------------------------------------------------------
(* C24 *)

\* the length of the timer in seconds: every focus period and every break
\* but the last
TotalSec(session) ==
    (60 * session.focus_minutes + 60 * session.break_minutes) * session.cycles
        - 60 * session.break_minutes

\* C24: for every stored timer, a reading at any whole second at or after
\* start + totalSec is completed with 0 s left and cycle index cycles, and
\* a completed reading is followed by completed readings only (second by
\* second up to the horizon, and between any two of the read instants).
C24_CompletionPermanent ==
    \A i \in 1..Len(pomodoro_sessions) :
        LET session == pomodoro_sessions[i]
        IN  /\ \A now \in 0..PhaseHorizon :
                  now >= session.started_at + TotalSec(session)
                  => Reading(session, now) = <<"completed", session.cycles, 0>>
            /\ \A now \in 0..(PhaseHorizon - 1) :
                  Reading(session, now)[1] = "completed"
                  => Reading(session, now + 1)[1] = "completed"
            /\ \A n1 \in PhaseTimes, n2 \in PhaseTimes :
                  (n1 <= n2 /\ Reading(session, n1)[1] = "completed")
                  => Reading(session, n2)[1] = "completed"

\* a timer of 600 s started at 100 and completed by the read at its end
\* (700), whose reading one second earlier is not completed and whose
\* reading at 7000 is
C24_Witness ==
    \E i \in 1..Len(pomodoro_sessions) :
        LET session == pomodoro_sessions[i]
        IN  /\ TotalSec(session) = 600
            /\ session.started_at = 100
            /\ session.status = "completed"
            /\ session.ended_at = 700
            /\ Reading(session, 699)[1] # "completed"
            /\ Reading(session, 7000) = <<"completed", session.cycles, 0>>

---------------------------------------------------------------------------
(* C25 *)

\* |a - b|
Distance(a, b) == IF a >= b THEN a - b ELSE b - a

\* stat (thousandths) is a nearest thousandth of num/den ten-thousandths
NearestThousandth(stat, num, den) ==
    2 * Distance(10 * den * stat, num) <= 10 * den

\* what the report of a list of samples holds besides peak and lowest:
\* zeros and an empty series for the empty list; else the length, the two
\* averages rounded to 3 decimals and one point per sample in input order
ReportOfList(samples, r) ==
    /\ DOMAIN r = {"sample_count", "average_focus", "average_stress",
                   "peak_stress", "lowest_focus", "graph_points"}
    /\ samples = <<>>
       => /\ r.sample_count = 0
          /\ r.average_focus = 0 /\ r.average_stress = 0
          /\ r.peak_stress = 0 /\ r.lowest_focus = 0
          /\ r.graph_points = <<>>
    /\ samples # <<>>
       => /\ r.sample_count = Len(samples)
          /\ NearestThousandth(r.average_focus,
                SumOf([i \in DOMAIN samples |-> samples[i].focus_score]),
                Len(samples))
          /\ NearestThousandth(r.average_stress,
                SumOf([i \in DOMAIN samples |-> samples[i].stress_score]),
                Len(samples))
          /\ Len(r.graph_points) = Len(samples)
          /\ \A i \in DOMAIN samples :
                r.graph_points[i] =
                    [timestamp    |-> samples[i].captured_at,
                     focus_score  |-> samples[i].focus_score,
                     stress_score |-> samples[i].stress_score]

\* the lists a state offers: the stored samples as inserted and as sorted
\* by capture time, and the sorted list without its first sample
StoredLists ==
    LET sorted == SessionSamples(focus_samples, 1)
    IN  {focus_samples, sorted,
         IF sorted = <<>> THEN <<>> ELSE Tail(sorted)}

\* C25 (as the code has it): for every list of samples, the empty one
\* included, the report has sample_count, both averages and the series as
\* stated, and for a non-empty list its peak stress is the maximum stress
\* score rounded to 3 decimals and its lowest focus the minimum focus score
\* rounded to 3 decimals; the report an end stores is that of the session's
\* samples in capture order.
C25_ReportOfEveryList ==
    /\ \A samples \in StoredLists :
          LET r == build_report(samples)
          IN  /\ ReportOfList(samples, r)
              /\ samples # <<>>
                 => /\ \E i \in DOMAIN samples :
                          /\ \A j \in DOMAIN samples :
                                samples[j].stress_score <= samples[i].stress_score
                          /\ NearestThousandth(r.peak_stress,
                                               samples[i].stress_score, 1)
                    /\ \E i \in DOMAIN samples :
                          /\ \A j \in DOMAIN samples :
                                samples[i].focus_score <= samples[j].focus_score
                          /\ NearestThousandth(r.lowest_focus,
                                               samples[i].focus_score, 1)
    /\ focus_sessions[1].status = "completed"
       => ReportOf(focus_reports, 1).report
              = build_report(SessionSamples(focus_samples, 1))

\* C25 (as stated): the peak stress of the report of a non-empty list is the
\* maximum stress score, and its lowest focus the minimum focus score.
C25_PeakAndLowestAreScores ==
    \A samples \in StoredLists :
        samples # <<>>
        => LET r == build_report(samples)
           IN  /\ \E i \in DOMAIN samples :
                     /\ \A j \in DOMAIN samples :
                           samples[j].stress_score <= samples[i].stress_score
                     /\ 10 * r.peak_stress = samples[i].stress_score
               /\ \E i \in DOMAIN samples :
                     /\ \A j \in DOMAIN samples :
                           samples[i].focus_score <= samples[j].focus_score
                     /\ 10 * r.lowest_focus = samples[i].focus_score

\* an ended session of three samples ingested out of capture order, whose
\* largest stress is 0.7777 and smallest focus 0.1234: the stored report
\* has peak 0.778, lowest 0.123 and the series in capture order
C25_Witness ==
    /\ Len(focus_samples) = 3
    /\ focus_samples[1].captured_at > focus_samples[2].captured_at
    /\ focus_sessions[1].status = "completed"
    /\ LET r == ReportOf(focus_reports, 1).report
       IN  /\ r.sample_count = 3
           /\ r.peak_stress = 778
           /\ r.lowest_focus = 123
           /\ r.graph_points[1].timestamp < r.graph_points[3].timestamp
           /\ r.average_stress # 778

---------------------------------------------------------------------------
(* C26 *)

\* what each operation answers, and leaves in the database it was given,
\* in the present state
Answers ==
    {start_focus_session(get_db, "u1", "true"),
     start_pomodoro(get_db, "u1", 1, 1, 1, 0),
     poll_break_prompt(get_db, "u1")}
    \cup {ingest_focus_sample(get_db, sid, c, HighStress[1], HighStress[2]) :
            sid \in 1..MaxSessions, c \in {0, PromptAfter}}
    \cup {end_focus_session(get_db, sid, 900) : sid \in 1..MaxSessions}
    \cup {acknowledge_break_prompt(get_db, pid, 700, TRUE) :
            pid \in 1..MaxSamples}
    \cup {get_pomodoro_status(get_db, sid, 60) : sid \in 1..MaxPomodoros}
    \cup {stop_pomodoro(get_db, sid, 45) : sid \in 1..MaxPomodoros}

\* C26: while MongoDB does not answer, no operation is answered with a
\* success and none changes the database it works on; and every session id
\* and timer id a start has issued is known to the database the next
\* request gets.
C26_UnreachableStoreFailsEveryOperation ==
    /\ ~reachable
       => \A r \in Answers : r.code \notin {200, 201} /\ r.db = get_db
    /\ \A i \in 1..Len(focus_sessions) :
          FindSession(get_db.focus_sessions, focus_sessions[i].session_id) # 0
    /\ \A i \in 1..Len(memory_db.focus_sessions) :
          FindSession(get_db.focus_sessions,
                      memory_db.focus_sessions[i].session_id) # 0
    /\ \A i \in 1..Len(pomodoro_sessions) :
          FindSession(get_db.pomodoro_sessions,
                      pomodoro_sessions[i].session_id) # 0
    /\ \A i \in 1..Len(memory_db.pomodoro_sessions) :
          FindSession(get_db.pomodoro_sessions,
                      memory_db.pomodoro_sessions[i].session_id) # 0

---------------------------------------------------------------------------
(* C27 *)

\* a step in which a store call of end_focus_session or of
\* ingest_focus_sample raised
FailedOperation == IngestFails \/ EndFocusFails

\* C27: a step in which a store call of EndFocusSession or IngestSample
\* fails leaves every collection as it was, and in no state is a session
\* completed without a report record of it.
C27_NoPartialWrite ==
    /\ [][FailedOperation
            => UNCHANGED <<focus_sessions, focus_samples, break_prompts,
                           focus_reports, pomodoro_sessions,
                           break_preferences>>]_vars
    /\ [](\A i \in 1..Len(focus_sessions) :
            focus_sessions[i].status = "completed"
            => focus_sessions[i].session_id \in Reported)

---------------------------------------------------------------------------
(* C28 *)

\* the requests that stored the samples of the one session, in the order of
\* their arrival
Arrived ==
    [k \in 1..Len(focus_samples) |->
        <<focus_samples[k].captured_at, focus_samples[k].focus_score,
          focus_samples[k].stress_score>>]

\* a prompt exists once the requests of the list were ingested, in the
\* order of the list, into the session as it was started
PromptAfterIngesting(sid, inputs) ==
    IngestAll([DB EXCEPT !.focus_samples = <<>>, !.break_prompts = <<>>],
              sid, inputs).break_prompts # <<>>

\* C28: for an active session with prompts allowed and no prompt resolved,
\* whether a prompt exists once its samples are ingested is the same for
\* every order of arrival of those samples.
C28_ArrivalOrderIrrelevant ==
    \A i \in 1..Len(focus_sessions) :
        (/\ focus_sessions[i].status = "active"
         /\ focus_sessions[i].allow_prompted_breaks
         /\ \A p \in 1..Len(break_prompts) : break_prompts[p].resolved_at = None)
        => \A order \in Permutations(1..Len(focus_samples)) :
              PromptAfterIngesting(focus_sessions[i].session_id,
                    [k \in 1..Len(focus_samples) |-> Arrived[order[k]]])
              = PromptAfterIngesting(focus_sessions[i].session_id, Arrived)

---------------------------------------------------------------------------
(* C29 *)

\* C29: in every state, a sample that is accepted and then ingested again
\* at once (same session, capture time and scores) is accepted again and
\* leaves the prompts as the first ingest left them.
C29_DuplicateLeavesSamePrompts ==
    \A sid \in Ids(MaxSessions), c \in CaptureTimes, sc \in ValidScores :
        LET once  == ingest_focus_sample(DB, sid, c, sc[1], sc[2])
            twice == ingest_focus_sample(once.db, sid, c, sc[1], sc[2])
        IN  once.code = 201
            => /\ twice.code = 201
               /\ twice.db.break_prompts = once.db.break_prompts
               /\ Len(twice.db.focus_samples) = Len(once.db.focus_samples) + 1

\* the sample that raised the prompt of its session was ingested twice in
\* immediate succession, and the session has that one prompt
C29_Witness ==
    /\ Len(focus_samples) = 3
    /\ focus_samples[2] = focus_samples[3]
    /\ Len(break_prompts) = 1
    /\ break_prompts[1].created_at = focus_samples[2].captured_at
    /\ break_prompts[1].session_id = focus_samples[2].session_id
    /\ break_prompts[1].resolved_at = None
    /\ focus_samples[1].captured_at + PromptAfter <= focus_samples[2].captured_at

---------------------------------------------------------------------------
(* C30 *)

\* what db holds of session sid: its document, its samples, its prompts
\* and its report record, each in insertion order
PartOf(db, sid) ==
    [session |-> SelectSeq(db.focus_sessions, LAMBDA d : d.session_id = sid),
     samples |-> SamplesOf(db.focus_samples, sid),
     prompts |-> SelectSeq(db.break_prompts, LAMBDA d : d.session_id = sid),
     report  |-> SelectSeq(db.focus_reports, LAMBDA d : d.session_id = sid)]

\* db with the stress of every sample of session sid set to 0
Calmed(db, sid) ==
    [db EXCEPT !.focus_samples =
        [k \in 1..Len(@) |->
            IF @[k].session_id = sid THEN [@[k] EXCEPT !.stress_score = 0]
            ELSE @[k]]]

---------------------------------------------------------------------------
(* C31 *)

\* the step stores the sample of an ingestion answered 201
SuccessfulIngestion ==
    \E sid \in Ids(MaxSessions), c \in CaptureTimes,
       sc \in ValidScores \cup InvalidScores :
        LET r == ingest_focus_sample(DB, sid, c, sc[1], sc[2])
        IN  r.code = 201 /\ focus_samples' = r.db.focus_samples

\* C31: every step of every operation leaves each stored sample as it is
\* and where it is, and the steps after which more samples are stored are
\* the successful ingestions, which add one sample.
C31_SamplesAppendOnly ==
    [][/\ Len(focus_samples') >= Len(focus_samples)
       /\ \A k \in 1..Len(focus_samples) : focus_samples'[k] = focus_samples[k]
       /\ focus_samples' # focus_samples
          => /\ SuccessfulIngestion
             /\ Len(focus_samples') = Len(focus_samples) + 1]_vars

\* three samples ingested out of capture order are stored as they arrived
\* after the session was ended and its prompt acknowledged, and a further
\* ingestion is refused
C31_Witness ==
    /\ Len(focus_samples) = 3
    /\ focus_samples[1].captured_at > focus_samples[2].captured_at
    /\ focus_samples[3].captured_at > focus_samples[1].captured_at
    /\ focus_sessions[1].status = "completed"
    /\ \E p \in 1..Len(break_prompts) : break_prompts[p].resolved_at # None
    /\ Len(pomodoro_sessions) = 1
    /\ IngestResult(1, 0, HighStress).code = 409

---------------------------------------------------------------------------
(* C32 *)

\* C32: in every state, an ingestion with capture time c into an active
\* session with prompts allowed and no unresolved prompt, which holds a
\* sample of stress >= 0.75 captured at c - 10 min, raises a prompt created
\* at c whatever the stress of the arriving sample and of the samples
\* captured in between.
C32_DipStillRaisesPrompt ==
    \A i \in 1..Len(focus_sessions), c \in CaptureTimes, sc \in ValidScores :
        LET session == focus_sessions[i]
            sid == session.session_id
            r == ingest_focus_sample(DB, sid, c, sc[1], sc[2])
        IN  (/\ session.status = "active"
             /\ session.allow_prompted_breaks
             /\ UnresolvedOf(break_prompts, session.user_id, sid) = {}
             /\ \E k \in 1..Len(focus_samples) :
                   /\ focus_samples[k].session_id = sid
                   /\ focus_samples[k].stress_score >= 7500
                   /\ focus_samples[k].captured_at = c - 600)
            => /\ r.code = 201
               /\ Len(r.db.break_prompts) = Len(break_prompts) + 1
               /\ r.db.break_prompts[Len(r.db.break_prompts)].created_at = c
               /\ r.db.break_prompts[Len(r.db.break_prompts)].session_id = sid
               /\ r.db.break_prompts[Len(r.db.break_prompts)].resolved_at = None

\* a prompt raised by a sample of low stress, 10 min after a sample of high
\* stress, with a sample of low stress captured in between
C32_Witness ==
    /\ Len(focus_samples) = 3
    /\ focus_samples[1].stress_score >= 7500
    /\ focus_samples[2].stress_score < 7500
    /\ focus_samples[3].stress_score < 7500
    /\ focus_samples[1].captured_at < focus_samples[2].captured_at
    /\ focus_samples[2].captured_at < focus_samples[3].captured_at
    /\ focus_samples[3].captured_at = focus_samples[1].captured_at + 600
    /\ Len(break_prompts) = 1
    /\ break_prompts[1].created_at = focus_samples[3].captured_at

---------------------------------------------------------------------------
(* C33 *)

\* db without the stored samples of session sid whose capture time is not
\* c - 10 min
OnlyTenMinutesBefore(db, sid, c) ==
    [db EXCEPT !.focus_samples =
        SelectSeq(@, LAMBDA d : d.session_id # sid \/ d.captured_at = c - 600)]

\* C33: in every state, an ingestion with capture time c that creates a
\* prompt leaves the session with a sample of stress >= 0.75 captured
\* exactly at c - 10 min; and the prompts an ingestion leaves are the same
\* when the samples stored for the session at any other capture time,
\* earlier or later than c - 10 min, are taken away.
C33_OnlySampleTenMinutesBeforeCounts ==
    \A sid \in Ids(MaxSessions), c \in CaptureTimes, sc \in ValidScores :
        LET r == ingest_focus_sample(DB, sid, c, sc[1], sc[2])
            q == ingest_focus_sample(OnlyTenMinutesBefore(DB, sid, c),
                                     sid, c, sc[1], sc[2])
        IN  /\ r.db.break_prompts # break_prompts
               => \E k \in 1..Len(r.db.focus_samples) :
                     /\ r.db.focus_samples[k].session_id = sid
                     /\ r.db.focus_samples[k].stress_score >= 7500
                     /\ r.db.focus_samples[k].captured_at = c - 600
            /\ q.code = r.code
            /\ q.db.break_prompts = r.db.break_prompts

\* a prompt created at T+10:01 in a session that holds high-stress samples
\* captured at T and at T+1 s: the one of T+1 s is 10 min old, the one of T
\* is older
C33_Witness ==
    /\ Len(focus_samples) = 3
    /\ focus_samples[1].captured_at = 0
    /\ focus_samples[1].stress_score >= 7500
    /\ focus_samples[2].captured_at = 1
    /\ focus_samples[2].stress_score >= 7500
    /\ focus_samples[3].captured_at = 601
    /\ Len(break_prompts) = 1
    /\ break_prompts[1].created_at = 601

---------------------------------------------------------------------------
(* C34 *)

\* the reading of the timer at now is focus or break, its countdown is
\* between 1 s and the length of the phase, the phase lasts until the
\* second before now + countdown and another phase begins at now +
\* countdown: break after focus, completed after the last focus, focus of
\* the next cycle after break
CountdownEndsAtBoundary(session, now) ==
    LET r    == Reading(session, now)
        next == Reading(session, now + r[3])
        last == Reading(session, now + r[3] - 1)
    IN  /\ r[1] = "focus"
           => /\ 1 <= r[3] /\ r[3] <= 60 * session.focus_minutes
              /\ last = <<"focus", r[2], 1>>
              /\ IF r[2] = session.cycles
                 THEN next = <<"completed", session.cycles, 0>>
                 ELSE next = <<"break", r[2], 60 * session.break_minutes>>
        /\ r[1] = "break"
           => /\ 1 <= r[3] /\ r[3] <= 60 * session.break_minutes
              /\ last = <<"break", r[2], 1>>
              /\ next = <<"focus", r[2] + 1, 60 * session.focus_minutes>>

\* C34 (as the code has it): for every stored timer and every whole second
\* now at or after its start at which the reading is focus or break, the
\* countdown is at least 1 and at most the length of the phase, and the
\* reading at now + countdown is of the next phase.
C34_CountdownFromStart ==
    \A i \in 1..Len(pomodoro_sessions) :
        \A now \in pomodoro_sessions[i].started_at..PhaseHorizon :
            CountdownEndsAtBoundary(pomodoro_sessions[i], now)

\* C34 (as stated): the same for every whole second now, those before the
\* start of the timer included.
C34_CountdownAtEveryNow ==
    \A i \in 1..Len(pomodoro_sessions) :
        \A now \in 0..PhaseHorizon :
            CountdownEndsAtBoundary(pomodoro_sessions[i], now)

\* a 2/1/2 timer started at 100 and completed by a read: in its last
\* second of break (279) the countdown is 1 and focus of cycle 2 follows
C34_Witness ==
    \E i \in 1..Len(pomodoro_sessions) :
        LET session == pomodoro_sessions[i]
        IN  /\ session.started_at = 100
            /\ <<session.focus_minutes, session.break_minutes, session.cycles>>
                  = <<2, 1, 2>>
            /\ session.status = "completed"
            /\ Reading(session, 279) = <<"break", 1, 1>>
            /\ Reading(session, 280) = <<"focus", 2, 120>>
            /\ Reading(session, 399) = <<"focus", 2, 1>>
            /\ Reading(session, 400) = <<"completed", 2, 0>>

---------------------------------------------------------------------------
(* C35 *)

\* the instants from the start of the timer to the horizon at which a
\* phase begins: the start itself, and every second whose phase differs
\* from that of the second before
Beginnings(session, phase) ==
    {now \in session.started_at..PhaseHorizon :
        /\ Reading(session, now)[1] = phase
        /\ now = session.started_at \/ Reading(session, now - 1)[1] # phase}

\* C35: for every stored timer, from its start to the horizon there are
\* exactly cycles focus intervals and cycles - 1 break intervals and then
\* completed; focus is followed by break, or by completed when it is the
\* focus of the last cycle, break by focus, completed by nothing; with
\* cycles = 1 no reading is break.
C35_NoTrailingBreak ==
    \A i \in 1..Len(pomodoro_sessions) :
        LET session == pomodoro_sessions[i]
            T == session.started_at
        IN  /\ Reading(session, T)[1] = "focus"
            /\ Reading(session, PhaseHorizon)[1] = "completed"
            /\ Cardinality(Beginnings(session, "focus")) = session.cycles
            /\ Cardinality(Beginnings(session, "break")) = session.cycles - 1
            /\ Cardinality(Beginnings(session, "completed")) = 1
            /\ \A now \in T..(PhaseHorizon - 1) :
                  LET r    == Reading(session, now)
                      next == Reading(session, now + 1)
                  IN  \/ next[1] = r[1]
                      \/ r[1] = "focus" /\ r[2] < session.cycles
                            /\ next[1] = "break"
                      \/ r[1] = "focus" /\ r[2] = session.cycles
                            /\ next[1] = "completed"
                      \/ r[1] = "break" /\ next[1] = "focus"
            /\ session.cycles = 1
               => \A now \in 0..PhaseHorizon : Reading(session, now)[1] # "break"

\* a 1/2/3 timer started at T and completed by a read: focus, break,
\* focus, break, focus, and completed from T+7:00 on
C35_Witness ==
    \E i \in 1..Len(pomodoro_sessions) :
        LET session == pomodoro_sessions[i]
        IN  /\ session.started_at = 0
            /\ <<session.focus_minutes, session.break_minutes, session.cycles>>
                  = <<1, 2, 3>>
            /\ session.status = "completed"
            /\ Beginnings(session, "focus") = {0, 180, 360}
            /\ Beginnings(session, "break") = {60, 240}
            /\ Beginnings(session, "completed") = {420}

---------------------------------------------------------------------------
(* C36 *)

\* C36: with requests handled one at a time, in every state and for every
\* focus session: the session has a report record exactly if its status is
\* completed, it has at most one, and the record holds the report of the
\* samples now stored for the session, in capture order.
C36_ReportIffCompletedAndFresh ==
    \A i \in 1..Len(focus_sessions) :
        LET sid     == focus_sessions[i].session_id
            records == {k \in 1..Len(focus_reports) :
                           focus_reports[k].session_id = sid}
        IN  /\ (records # {}) = (focus_sessions[i].status = "completed")
            /\ Cardinality(records) <= 1
            /\ \A k \in records :
                  focus_reports[k].report
                      = build_report(SessionSamples(focus_samples, sid))

\* a session of three samples that is completed, with its one report
\* record of three samples generated at the session's end time, and to
\* which a further ingestion is refused
C36_Witness ==
    /\ Len(focus_sessions) = 1
    /\ focus_sessions[1].status = "completed"
    /\ Len(focus_samples) = 3
    /\ Len(focus_reports) = 1
    /\ focus_reports[1].report.sample_count = 3
    /\ focus_reports[1].generated_at = 1000
    /\ focus_sessions[1].ended_at = 1000
    /\ IngestResult(1, 601, HighStress).code = 409

---------------------------------------------------------------------------
(* C37 *)

\* C37: in every state, every break prompt names a stored focus session
\* that allows prompted breaks and has the prompt's owner, and was created
\* at the capture time of a sample stored for that session.
C37_PromptRefersToSessionAndSample ==
    \A p \in 1..Len(break_prompts) :
        /\ \E i \in 1..Len(focus_sessions) :
              /\ focus_sessions[i].session_id = break_prompts[p].session_id
              /\ focus_sessions[i].allow_prompted_breaks
              /\ focus_sessions[i].user_id = break_prompts[p].user_id
        /\ \E k \in 1..Len(focus_samples) :
              /\ focus_samples[k].session_id = break_prompts[p].session_id
              /\ focus_samples[k].captured_at = break_prompts[p].created_at

\* a resolved prompt of a session that has been ended since, while the
\* owner's preference is off: session, flag and sample are still there
C37_Witness ==
    /\ Len(break_prompts) = 1
    /\ break_prompts[1].resolved_at # None
    /\ break_prompts[1].created_at = 601
    /\ focus_sessions[1].status = "completed"
    /\ focus_sessions[1].allow_prompted_breaks
    /\ \E j \in 1..Len(break_preferences) :
          /\ break_preferences[j].user_id = focus_sessions[1].user_id
          /\ ~break_preferences[j].stress_prompt_enabled

---------------------------------------------------------------------------
(* C38 *)

\* the client drains, no prompt of its owner is unresolved, and its latest
\* poll was answered with no prompt
Drained ==
    /\ procs # <<>>
    /\ \A p \in 1..Len(break_prompts) :
          break_prompts[p].user_id = procs[1].arg
          => break_prompts[p].resolved_at # None
    /\ procs[1].pc = "poll"
    /\ procs[1].code = 200
    /\ procs[1].target = 0

\* C38: once a client polls an owner and acknowledges whatever prompt is
\* returned, again and again, and no further sample is ingested, there
\* comes a state from which on every prompt of that owner is resolved and
\* the poll returns no prompt.
C38_PromptsDrained == [](procs # <<>> => <>[]Drained)

\* the client has drained two prompts of its owner, raised by two sessions
\* at the same capture time, and its latest poll returned none
C38_Witness ==
    /\ Drained
    /\ Len(break_prompts) = 2
    /\ \A p \in 1..2 :
          /\ break_prompts[p].user_id = procs[1].arg
          /\ break_prompts[p].resolved_at = 700
    /\ break_prompts[1].session_id # break_prompts[2].session_id
    /\ break_prompts[1].created_at = break_prompts[2].created_at

---------------------------------------------------------------------------
(* C39 *)

\* no save of a snapshot is under way
SavesFinished ==
    \A p \in 1..Len(procs) : procs[p].op = "save" => procs[p].pc = "done"

\* the snapshot of owner u in the store collection, NoSnapshot if none
StoredSnapshot(u) ==
    IF \E i \in 1..Len(live_stress_snapshots) :
           live_stress_snapshots[i].user_id = u
    THEN live_stress_snapshots[
             CHOOSE i \in 1..Len(live_stress_snapshots) :
                 /\ live_stress_snapshots[i].user_id = u
                 /\ \A j \in 1..(i - 1) :
                        live_stress_snapshots[j].user_id # u]
    ELSE NoSnapshot

\* C39: whenever every save of a snapshot has finished, whatever the
\* order in which the saves' store upserts and cache writes ran, the
\* cached snapshot of each owner is the snapshot the store holds for
\* that owner.
C39_CacheEqualsStore ==
    SavesFinished =>
        \A u \in Users : live_analysis_cache[u] = StoredSnapshot(u)
---------------------------------------------------------------------------
(* C40 *)

\* the seconds of the timer that have passed at the instant now
Elapsed(session, now) ==
    IF now > session.started_at THEN now - session.started_at ELSE 0

\* the cycle the instant now falls in, counted from 1 and not limited
CycleOf(session, now) ==
    (Elapsed(session, now)
        \div (60 * session.focus_minutes + 60 * session.break_minutes)) + 1

\* C40: for every stored timer and every whole second now up to the
\* horizon, the cycle index of the reading lies in 1..cycles and is not
\* smaller than the cycle index of the reading one second earlier; while
\* the elapsed time is below the timer's length, the cycle counted from the
\* elapsed time without any limit is at most cycles and is the cycle index
\* of the reading.
C40_CycleIndexInRangeAndMonotone ==
    \A i \in 1..Len(pomodoro_sessions) :
        LET session == pomodoro_sessions[i]
        IN  \A now \in 0..PhaseHorizon :
                /\ Reading(session, now)[2] \in 1..session.cycles
                /\ now > 0 =>
                       Reading(session, now - 1)[2] <= Reading(session, now)[2]
                /\ Elapsed(session, now) < TotalSec(session) =>
                       /\ CycleOf(session, now) <= session.cycles
                       /\ Reading(session, now)[2] = CycleOf(session, now)

\* a 25/5/4 timer started at 100 and completed by the read at 7000, whose
\* readings are in cycle 1 at the start, in cycle 2 after 1800 s, and in
\* cycle 4 in the last second of its last focus period
C40_Witness ==
    \E i \in 1..Len(pomodoro_sessions) :
        LET session == pomodoro_sessions[i]
        IN  /\ <<session.focus_minutes, session.break_minutes, session.cycles>>
                  = <<25, 5, 4>>
            /\ session.started_at = 100
            /\ session.status = "completed"
            /\ session.ended_at = 7000
            /\ Reading(session, 100)[2] = 1
            /\ Reading(session, 1900)[2] = 2
            /\ Reading(session, 6999) = <<"focus", 4, 1>>
            /\ CycleOf(session, 6999) = 4
===========================================================================
